---- MODULE Spec2Model ----
(***************************************************************************)
(* A model of the Boston College COVID-19 sleep and well-being survey      *)
(* cleaning script (COVID19_Format_Clean.py, release of 5.10.2022, with    *)
(* the release of 4.16.2021 noted where it differs).                       *)
(*                                                                         *)
(* Four specifications share the variables below:                          *)
(*   SpecSleep  the clock-time functions calc_sleep_time and               *)
(*              calc_sleep_midpoint applied to one (bed, awake) pair;      *)
(*   Spec       the script's run, section by section, over small raw       *)
(*              tables, a roster and a corrections file, and then          *)
(*              time_bin_data of the merge script over the daily table;    *)
(*   SpecClock  one clock time written by timedelta2str and read back by   *)
(*              import_covid19_data;                                       *)
(*   SpecScore  one composite with reverse-scored items computed from one  *)
(*              subject's answers.                                         *)
(*                                                                         *)
(* Clock times and durations are whole minutes: pd.Timedelta(h hours) is   *)
(* 60*h, and a duration of x hours (a float in the code) is 60*x.          *)
(***************************************************************************)
EXTENDS Integers, Sequences, FiniteSets, TLC

VARIABLES
    \* ---- calc_sleep_time / calc_sleep_midpoint (SpecSleep)
    bed_time,        \* argument bed_time: minutes since midnight, or NaN
    awake_time,      \* argument awake_time: minutes since midnight, or NaN
    correct_12,      \* argument correct_12
    min_12,          \* argument min_12, in hours
    st,              \* returned duration, in minutes, or NaN
    corr12,          \* returned correction flag: 0, 1, or NotReturned
    sleep_midpoint,  \* returned midpoint, in minutes, or NaN
    spc              \* "input"; "time" or "midpoint" once the function of that
                     \* name has returned; otherwise the exception raised

sleepVars == <<bed_time, awake_time, correct_12, min_12, st, corr12,
               sleep_midpoint, spc>>

VARIABLES
    \* ---- the script's run (Spec)
    pc,                   \* the section of the script about to run, or "halted"
    failed,               \* the assertion that halted the run ("" for none)
    roster_file,          \* rows of IDs_For_DEID_Data.csv: <<sub_id, sub_num>>
    corrections_file,     \* rows of SubjID_Replacements.csv: <<INCORRECT, CORRECT>>
    data,                 \* the daily table (long, short, April 18, Nov 15)
    demo,                 \* the demographics table
    r1,                   \* a round table (r1 ... r9 get the same statements)
    r3,                   \* the round table of the 3 month follow-up
    valid_sub_ids,        \* the set of valid subject ID strings
    sub_ids_corrections,  \* the corrections dict
    sub_num_key,          \* the dict from subject ID string to subject number
    written               \* the files written so far

runVars == <<pc, failed, roster_file, corrections_file, data, demo, r1, r3,
             valid_sub_ids, sub_ids_corrections, sub_num_key, written>>

VARIABLES
    \* ---- timedelta2str and its import (SpecClock)
    td,        \* the Timedelta of one cell, in minutes, or NaN
    cell,      \* the cell of the csv file, a string
    imported,  \* the Timedelta the import makes of the cell, or NaN
    cpc        \* "td", "csv", "imported", or the exception raised

clockVars == <<td, cell, imported, cpc>>

VARIABLES
    \* ---- the composites with reverse-scored items (SpecScore)
    scale,     \* the composite computed
    answers,   \* the answers to its items, in the order of the script's sum
    score,     \* the composite, or NaN
    qpc        \* "items", then "scored"

scoreVars == <<scale, answers, score, qpc>>

VARIABLES
    \* ---- time_bin_data (Spec)
    binned_data    \* the rows of the binned table

otherVars == <<sleepVars, clockVars, scoreVars>>

vars == <<sleepVars, runVars, clockVars, scoreVars, binned_data>>

----------------------------------------------------------------------------
(* Missing values and clock constants *)

\* np.nan / NaT: the missing value of a float or Timedelta column.
NaN == -100000

\* calc_sleep_time returns st alone when correct_12 is false: no flag.
NotReturned == -1

\* pd.Timedelta(1, unit='hours'), the lower edge of the 12-hour window.
Hour1 == 60

\* pd.Timedelta(13, unit='hours'), the upper edge of the 12-hour window.
Hour13 == 780

\* pd.Timedelta(24, unit='hours').
Hour24 == 1440

\* The 12 hours taken off a duration entered on a 12-hour clock.
Hour12 == 720

----------------------------------------------------------------------------
(* Bounds of the inputs *)

\* Number of evenly spaced clock times tried, besides the edge cases.
GridN == 24

\* Clock times at the edges of the code's comparisons and the spec's examples.
EdgeTimes == {1, 10, 50, 59, 60, 61, 435, 719, 720, 779, 780, 781,
              1350, 1380, 1430, 1438, 1439}

\* A value outside the accepted range (25:00).
BadTime == 1500

Times == {(k * Hour24) \div GridN : k \in 0..(GridN - 1)} \cup EdgeTimes

TimeInputs == Times \cup {Hour24, NaN, BadTime}

\* The values of min_12 the script passes (0 is the default).
Min12Values == {0, 2, 3}

----------------------------------------------------------------------------
(* calc_sleep_time *)

\* bed_time.between(0, 24h) | bed_time.isna()
ValidTime(t) == t = NaN \/ (t >= 0 /\ t <= Hour24)

\* st = awake_time - bed_time; st[st<0] += 24
NaiveSleepTime(bed, awake) ==
    IF bed = NaN \/ awake = NaN THEN NaN
    ELSE IF awake - bed < 0 THEN awake - bed + Hour24 ELSE awake - bed

\* Mutant of InWindow12: the upper edge 13:00 taken into the window.
InWindow12_Incl13(t) == t # NaN /\ t <= Hour13 /\ t >= Hour1

\* (t < 13h) & (t >= 1h); a comparison with NaT is False
InWindow12(t) == t # NaN /\ t < Hour13 /\ t >= Hour1

\* Mutant of Idx12: the test awake_time < bed_time left out.
Idx12_NoOrder(bed, awake) == InWindow12(awake) /\ InWindow12(bed)

\* idx of the 12-hour correction
Idx12(bed, awake) ==
    /\ bed # NaN /\ awake # NaN
    /\ awake < bed
    /\ InWindow12(awake) /\ InWindow12(bed)

\* Mutant of Corrected12: 12 hours taken off whenever awake_time < bed_time,
\* in the window or not.
Corrected12_NoWindow(bed, awake, c12) ==
    LET n == NaiveSleepTime(bed, awake)
    IN  IF c12 /\ bed # NaN /\ awake # NaN /\ awake < bed /\ n >= Hour12
        THEN n - Hour12 ELSE n

\* st[idx] += -12
Corrected12(bed, awake, c12) ==
    LET n == NaiveSleepTime(bed, awake)
    IN  IF c12 /\ Idx12(bed, awake) THEN n - Hour12 ELSE n

\* corr12 = pd.Series(index=st.index, dtype=int); corr12[idx] = 1
Corr12Flag(bed, awake, c12) ==
    IF ~c12 THEN NotReturned
    ELSE IF Idx12(bed, awake) THEN 1 ELSE 0

\* Mutant of IdxFloor: the floor applied only to the 12-hour pattern
\* (awake_time < bed_time as well), as if idx of the correction were reused.
IdxFloor_WithOrder(s, bed, awake, m12) ==
    /\ s # NaN
    /\ s < 60 * m12
    /\ Idx12(bed, awake)

\* idx of the ambiguity floor: (st < min_12) & both times in the window
IdxFloor(s, bed, awake, m12) ==
    /\ s # NaN
    /\ s < 60 * m12
    /\ InWindow12(awake) /\ InWindow12(bed)

\* Mutant of Floored: every duration below the floor made missing, in the
\* window or not.
Floored_NoWindow(s, bed, awake, m12) ==
    IF m12 # 0 /\ s # NaN /\ s < 60 * m12 THEN NaN ELSE s

\* if min_12: st[idx] = np.nan
Floored(s, bed, awake, m12) ==
    IF m12 # 0 /\ IdxFloor(s, bed, awake, m12) THEN NaN ELSE s

\* The whole function: the exception raised ("" for none) and the results.
calc_sleep_time(bed, awake, c12, m12) ==
    IF ~ValidTime(bed) \/ ~ValidTime(awake)
    THEN [exc |-> "ValueError", st |-> NaN, corr12 |-> NotReturned]
    ELSE LET s == Corrected12(bed, awake, c12)
         IN  IF ~(s = NaN \/ (s >= 0 /\ s <= Hour24))
             THEN [exc |-> "AssertionError_st", st |-> NaN, corr12 |-> NotReturned]
             ELSE [exc |-> "", st |-> Floored(s, bed, awake, m12),
                   corr12 |-> Corr12Flag(bed, awake, c12)]

----------------------------------------------------------------------------
(* calc_sleep_midpoint, in half minutes until it is rounded *)

\* sleep_duration.apply(pd.Timedelta, unit='hours'): the duration, a float
\* number of hours, goes back to nanoseconds with the fraction of the hour
\* rounded to 9 decimals. A whole number of minutes s comes back exact when
\* s is a multiple of 3, and 1200 ns long (s % 3 = 1) or short (s % 3 = 2)
\* otherwise. The sign of that error is all that the comparisons and the
\* rounding below can see.
ConversionError(s) ==
    IF s = NaN THEN 0
    ELSE IF s % 3 = 1 THEN 1 ELSE IF s % 3 = 2 THEN -1 ELSE 0

\* bed_time + sleep_duration/2, in half minutes (to which the error adds)
RawMidpoint2(bed, s) ==
    IF bed = NaN \/ s = NaN THEN NaN ELSE 2 * bed + s

\* x + error >= y, for whole x and y and an error below one unit
GeWithError(x, y, e) == x > y \/ (x = y /\ e >= 0)

\* Mutant of WrappedMidpoint2: the wrap at 24h left out.
WrappedMidpoint2_NoWrap(m2, flag, e) ==
    IF m2 = NaN THEN NaN
    ELSE IF GeWithError(m2, 2 * Hour13, e) /\ flag = 1 THEN m2 - 2 * Hour12
         ELSE m2

\* The two circular corrections, in half minutes:
\*   idx = (sleep_midpoint >= 24h) & ~corr12;  sleep_midpoint[idx] += -24h
\*   idx = (sleep_midpoint >= 13h) & corr12;   sleep_midpoint[idx] += -12h
WrappedMidpoint2(m2, flag, e) ==
    IF m2 = NaN THEN NaN
    ELSE LET a == IF GeWithError(m2, 2 * Hour24, e) /\ flag # 1
                  THEN m2 - 2 * Hour24 ELSE m2
         IN  IF GeWithError(a, 2 * Hour13, e) /\ flag = 1
             THEN a - 2 * Hour12 ELSE a

\* sleep_midpoint.round('min'): to the nearest minute; a value exactly half
\* way goes to the even minute, one off half way by the conversion error
\* goes the error's way.
RoundMin(m2, e) ==
    IF m2 = NaN THEN NaN
    ELSE IF m2 % 2 = 0 THEN m2 \div 2
    ELSE LET lo == (m2 - 1) \div 2
         IN  IF e > 0 THEN lo + 1
             ELSE IF e < 0 THEN lo
             ELSE IF lo % 2 = 0 THEN lo ELSE lo + 1

\* assert all(sleep_midpoint.between(0, 24h) | sleep_midpoint.isna())
MidpointAccepted(m) == m = NaN \/ (m >= 0 /\ m <= Hour24)

----------------------------------------------------------------------------
(* SpecSleep: one call of either function on one pair of clock times *)

\* The script's run takes no part in SpecSleep.
RunIdle ==
    /\ pc = "idle" /\ failed = ""
    /\ roster_file = <<>> /\ corrections_file = <<>>
    /\ data = <<>> /\ demo = <<>> /\ r1 = <<>> /\ r3 = <<>>
    /\ valid_sub_ids = {} /\ sub_ids_corrections = <<>> /\ sub_num_key = <<>>
    /\ written = {}
    /\ binned_data = <<>>

\* calc_sleep_time and calc_sleep_midpoint are not called on their own in
\* the other specifications.
SleepIdle ==
    /\ bed_time = NaN /\ awake_time = NaN
    /\ correct_12 = FALSE /\ min_12 = 0
    /\ st = NaN /\ corr12 = NotReturned /\ sleep_midpoint = NaN
    /\ spc = "idle"

\* timedelta2str takes no part in SpecSleep, in SpecScore or in Spec.
ClockIdle == td = NaN /\ cell = <<>> /\ imported = NaN /\ cpc = "idle"

\* The composites of SpecScore take no part in the other specifications.
ScoreIdle == scale = "" /\ answers = <<>> /\ score = NaN /\ qpc = "idle"

InitSleep ==
    /\ bed_time \in TimeInputs
    /\ awake_time \in TimeInputs
    /\ correct_12 \in BOOLEAN
    /\ min_12 \in Min12Values
    /\ st = NaN
    /\ corr12 = NotReturned
    /\ sleep_midpoint = NaN
    /\ spc = "input"
    /\ RunIdle
    /\ ClockIdle
    /\ ScoreIdle

CallSleepTime ==
    /\ spc = "input"
    /\ LET r == calc_sleep_time(bed_time, awake_time, correct_12, min_12)
       IN  /\ st' = r.st
           /\ corr12' = r.corr12
           /\ spc' = IF r.exc = "" THEN "time" ELSE r.exc
    /\ UNCHANGED <<bed_time, awake_time, correct_12, min_12, sleep_midpoint>>
    /\ UNCHANGED <<runVars, clockVars, scoreVars, binned_data>>

\* Mutant of CallSleepMidpoint: the duration alone taken for the pair, the
\* flag for not set.
CallSleepMidpoint_Unpacks ==
    /\ spc = "input"
    /\ LET r == calc_sleep_time(bed_time, awake_time, correct_12, min_12)
       IN  IF r.exc # ""
           THEN /\ spc' = r.exc
                /\ UNCHANGED <<st, corr12, sleep_midpoint>>
           ELSE LET e == ConversionError(r.st)
                    m == RoundMin(WrappedMidpoint2(
                             RawMidpoint2(bed_time, r.st), r.corr12, e), e)
                IN  /\ st' = r.st
                    /\ corr12' = r.corr12
                    /\ sleep_midpoint' = (IF MidpointAccepted(m) THEN m ELSE NaN)
                    /\ spc' = (IF MidpointAccepted(m) THEN "midpoint"
                               ELSE "AssertionError_midpoint")
    /\ UNCHANGED <<bed_time, awake_time, correct_12, min_12>>
    /\ UNCHANGED <<runVars, clockVars, scoreVars, binned_data>>

\* calc_sleep_midpoint: the checks of the range are those of calc_sleep_time,
\* which it calls
CallSleepMidpoint ==
    /\ spc = "input"
    /\ LET r == calc_sleep_time(bed_time, awake_time, correct_12, min_12)
       IN  IF r.exc # ""
           THEN /\ spc' = r.exc
                /\ UNCHANGED <<st, corr12, sleep_midpoint>>
           ELSE IF ~correct_12
           \* (sleep_duration, corr12) = <a Series>: the unpacking fails
           THEN /\ spc' = "UnpackError"
                /\ UNCHANGED <<st, corr12, sleep_midpoint>>
           ELSE LET e == ConversionError(r.st)
                    m == RoundMin(WrappedMidpoint2(
                             RawMidpoint2(bed_time, r.st), r.corr12, e), e)
                IN  /\ st' = r.st
                    /\ corr12' = r.corr12
                    /\ sleep_midpoint' = (IF MidpointAccepted(m) THEN m ELSE NaN)
                    /\ spc' = (IF MidpointAccepted(m) THEN "midpoint"
                               ELSE "AssertionError_midpoint")
    /\ UNCHANGED <<bed_time, awake_time, correct_12, min_12>>
    /\ UNCHANGED <<runVars, clockVars, scoreVars, binned_data>>

NextSleep == CallSleepTime \/ CallSleepMidpoint

SpecSleep == InitSleep /\ [][NextSleep]_vars

----------------------------------------------------------------------------
(* Strings: a subject ID is a sequence of one-character strings; the empty *)
(* sequence is the missing value read_csv gives an empty field.             *)

\* The zero-width space '\u200b', one character.
ZWSP == "U+200B"

LowerCase == <<"a","b","c","d","e","f","g","h","i","j","k","l","m",
               "n","o","p","q","r","s","t","u","v","w","x","y","z">>

UpperCase == <<"A","B","C","D","E","F","G","H","I","J","K","L","M",
               "N","O","P","Q","R","S","T","U","V","W","X","Y","Z">>

\* The characters str.strip() removes; '\u200b' is not one of them.
IsSpace(c) == c \in {" ", "\t", "\n", "\r"}

UpperChar(c) ==
    IF \E i \in 1..26 : LowerCase[i] = c
    THEN UpperCase[CHOOSE i \in 1..26 : LowerCase[i] = c]
    ELSE c

\* str.upper()
Upper(s) == [i \in 1..Len(s) |-> UpperChar(s[i])]

RECURSIVE LStrip(_)
LStrip(s) == IF s # <<>> /\ IsSpace(Head(s)) THEN LStrip(Tail(s)) ELSE s

RECURSIVE RStrip(_)
RStrip(s) ==
    IF s # <<>> /\ IsSpace(s[Len(s)]) THEN RStrip(SubSeq(s, 1, Len(s) - 1))
    ELSE s

\* str.strip()
Strip(s) == RStrip(LStrip(s))

\* .astype(str).str.strip().str.upper()
StripUpperStr(s) == Upper(Strip(s))

\* .str.replace('\u200b', '')
RemoveZWSP(s) == SelectSeq(s, LAMBDA c : c # ZWSP)

\* str(x) of a positive integer
RECURSIVE IntToStr(_)
IntToStr(n) ==
    LET d == <<"0","1","2","3","4","5","6","7","8","9">>[(n % 10) + 1]
    IN  IF n < 10 THEN <<d>> ELSE Append(IntToStr(n \div 10), d)

----------------------------------------------------------------------------
(* Tables: a table is a sequence of rows. A row keeps, beside the columns  *)
(* the script reads, the raw subject ID it came with (raw) and its place   *)
(* in the raw file (row); the script has neither, the claims speak of both. *)

\* A missing value of a column of strings: NaN, which is no string.
NaS == <<"NaN">>

\* A missing quotient: a quotient is kept as the pair of its numerator and
\* its denominator, both in minutes.
NaQ == <<>>

\* A row of a raw file. sub_id is the subject number the ID column holds
\* once the script has replaced it (NaN before); unique_id is the daily
\* table's index (empty before).
RawRow(i, rec, id, date, inst, apr, nov, notdone) ==
    [row |-> i, record_id |-> rec, raw |-> id, subjid |-> id, sub_id |-> NaN,
     todays_date |-> date, redcap_repeat_instrument |-> inst,
     april_18_complete |-> apr, nov15_complete |-> nov,
     not_completed |-> notdone, unique_id |-> <<>>, age1 |-> 30,
     redcap_timestamp |-> 1, alcohol_bev |-> NaN,
     ref_date_problem |-> FALSE, ref_date |-> NaN, days_elapsed |-> NaN,
     country |-> <<"U","S","A">>, country_3mo |-> NaS,
     depression |-> [k \in 1..8 |-> NaN], PHQ9 |-> NaN,
     psqi_1 |-> NaN, psqi_2 |-> NaN, psqi_3 |-> NaN, psqi_4 |-> NaN,
     psqi_5a |-> NaN, psqi_5b_5j |-> [k \in 1..9 |-> NaN], psqi_5j2 |-> NaS,
     psqi_6 |-> NaN, psqi_7 |-> NaN, psqi_8 |-> NaN, psqi_9 |-> NaN,
     PSQIDURAT |-> NaN, PSQIDISTB |-> NaN, PSQILATEN |-> NaN,
     PSQIDAYDYS |-> NaN, PSQI_TIB |-> NaN, PSQIHSE |-> NaN, PSQI_TOTAL |-> NaN,
     psqi_2NEW |-> NaN, PSQI_sleep_eff |-> NaQ, PSQISLPQUAL |-> NaN,
     PSQIMEDS |-> NaN,
     panas_pa |-> [k \in 1..10 |-> NaN], panas_na |-> [k \in 1..10 |-> NaN],
     PANAS_PA |-> NaN, PANAS_NA |-> NaN,
     sleepdiary_bedtime |-> NaN, sleepdiary_fallasleep |-> NaN,
     sleepdiary_waketime |-> NaN, sleepdiary_outofbed |-> NaN,
     sleepdiary_wakes |-> NaN, night_awakening_time |-> NaN,
     sleepdiary_sleeplatency |-> NaN,
     TIB |-> NaN, sleepattempt |-> NaN, TST |-> NaN, SE |-> NaQ,
     mtq_p3 |-> NaN, mtq_p4 |-> NaN, mtq_p5 |-> NaN, mtq_p6 |-> NaN,
     mtq_precovid_chronotype |-> NaN]

\* A row of the demographics or of a round file: the daily columns are idle.
PlainRow(i, rec, id) == RawRow(i, rec, id, 1, "NaN", "NaN", "NaN", FALSE)

\* Table t with the IDs ids, one for each row, in the ID column.
SetSubjid(t, ids) == [i \in 1..Len(t) |-> [t[i] EXCEPT !.subjid = ids[i]]]

\* The ID column of table t, Series.str.strip().str.upper() applied.
StripUpperColumn(t) == SetSubjid(t, [i \in 1..Len(t) |-> StripUpperStr(t[i].subjid)])

\* The ID column of table t, Series.str.replace('\u200b', '') applied.
RemoveZWSPColumn(t) == SetSubjid(t, [i \in 1..Len(t) |-> RemoveZWSP(t[i].subjid)])

----------------------------------------------------------------------------
(* The subject IDs of the files *)

\* excl_subs
excl_subs == { <<"5","4","D","L","L">>, <<"A","2","Y","X","X">>,
               <<"7","Q","U","6","Y">>, <<"P","M","M","T","T">>,
               <<"Q","M","P","3","3">> }

\* The ID of the duplicated LSAS response.
WSKA2_LSAS == <<"W","S","K","A","2","_","L","S","A","S">>

Id_A1B2C3 == <<"A","1","B","2","C","3">>
Id_A1B2C4 == <<"A","1","B","2","C","4">>
Id_B7K9M  == <<"B","7","K","9","M">>
Id_54DLL  == <<"5","4","D","L","L">>
Id_54DL1  == <<"5","4","D","L","1">>
Id_QQQQQ  == <<"Q","Q","Q","Q","Q">>

\* Raw IDs as respondents typed them.
Raw_a1b2c3_spaced == <<" ","a","1","b","2","c","3"," ">>
Raw_b7k9m         == <<"b","7","k","9","m">>
Raw_54dll_zwsp    == <<"5","4","d","l","l",ZWSP>>
Raw_zwsp_b7k9m    == <<ZWSP," ","B","7","K","9","M">>

RawIds == { <<>>, Raw_a1b2c3_spaced, Id_A1B2C4, Raw_b7k9m, Id_54DLL,
            Raw_54dll_zwsp, Id_54DL1, Id_QQQQQ, Raw_zwsp_b7k9m, WSKA2_LSAS }

\* IDs_For_DEID_Data.csv: two subjects, and at most one more row.
BaseRoster == << <<Id_A1B2C4, 17>>, <<Raw_b7k9m, 23>> >>

ExtraRosterRows == { <<Id_54DLL, 5>>, <<<<" ","a","1","b","2","c","4">>, 99>>,
                     <<Id_QQQQQ, 17>>, <<Id_QQQQQ, 31>> }

RosterFiles == {BaseRoster} \cup {Append(BaseRoster, x) : x \in ExtraRosterRows}

\* SubjID_Replacements.csv
CorrectionFiles ==
    { << <<Id_A1B2C3, Id_A1B2C4>> >>,
      << <<<<"a","1","b","2","c","3"," ">>, Id_A1B2C4>>, <<Id_A1B2C4, Id_B7K9M>> >>,
      << <<Id_A1B2C3, Id_A1B2C4>>, <<Id_54DL1, Id_54DLL>> >> }

----------------------------------------------------------------------------
(* The script's run: one action per section *)

Halt(why) ==
    /\ pc' = "halted"
    /\ failed' = why

\* SUBJECT CORRECTIONS AND EXCLUSIONS: dropna
DropMissing ==
    /\ pc = "dropna"
    /\ data' = SelectSeq(data, LAMBDA r : r.subjid # <<>> /\ r.todays_date # NaN)
    /\ demo' = SelectSeq(demo, LAMBDA r : r.subjid # <<>>)
    /\ r1' = SelectSeq(r1, LAMBDA r : r.subjid # <<>>)
    /\ r3' = SelectSeq(r3, LAMBDA r : r.subjid # <<>>)
    /\ pc' = "strip_upper"
    /\ UNCHANGED <<failed, roster_file, corrections_file, valid_sub_ids,
                   sub_ids_corrections, sub_num_key, written>>
    /\ UNCHANGED <<otherVars, binned_data>>

\* Remove whitespace from subject IDs and convert all to uppercase
StripUpper ==
    /\ pc = "strip_upper"
    /\ data' = StripUpperColumn(data)
    /\ demo' = StripUpperColumn(demo)
    /\ r1' = StripUpperColumn(r1)
    /\ r3' = StripUpperColumn(r3)
    /\ pc' = "fix_lsas"
    /\ UNCHANGED <<failed, roster_file, corrections_file, valid_sub_ids,
                   sub_ids_corrections, sub_num_key, written>>
    /\ UNCHANGED <<otherVars, binned_data>>

\* Fix LSAS response for WSKA2: the duplicate's rows leave the daily table
\* (and round 6, whose LSAS columns are not modelled)
FixLSAS ==
    /\ pc = "fix_lsas"
    /\ data' = SelectSeq(data, LAMBDA r : r.subjid # WSKA2_LSAS)
    /\ pc' = "exclusions"
    /\ UNCHANGED <<failed, roster_file, corrections_file, demo, r1, r3,
                   valid_sub_ids, sub_ids_corrections, sub_num_key, written>>
    /\ UNCHANGED <<otherVars, binned_data>>

\* data = data[~data['subjid_2'].isin(excl_subs)], and so for every table
ExcludeSubs(t) == SelectSeq(t, LAMBDA r : r.subjid \notin excl_subs)

\* demo['age1'].min() >= 18: the least age that is not missing, and False
\* of the missing minimum of no ages
MinAgeAtLeast18(t) ==
    /\ \E i \in 1..Len(t) : t[i].age1 # NaN
    /\ \A i \in 1..Len(t) : t[i].age1 # NaN => t[i].age1 >= 18

\* These subjects are under 18 and were included by mistake or the sub_id
\* was assigned twice
ApplyExclusions ==
    /\ pc = "exclusions"
    /\ data' = ExcludeSubs(data)
    /\ demo' = ExcludeSubs(demo)
    /\ r1' = ExcludeSubs(r1)
    /\ r3' = ExcludeSubs(r3)
    /\ IF MinAgeAtLeast18(ExcludeSubs(demo))
       THEN pc' = "strip_zwsp" /\ UNCHANGED failed
       ELSE Halt("assert demo['age1'].min() >= 18")
    /\ UNCHANGED <<roster_file, corrections_file, valid_sub_ids,
                   sub_ids_corrections, sub_num_key, written>>
    /\ UNCHANGED <<otherVars, binned_data>>

\* Remove non-printing space from sub IDs
StripZWSP ==
    /\ pc = "strip_zwsp"
    /\ data' = RemoveZWSPColumn(data)
    /\ demo' = RemoveZWSPColumn(demo)
    /\ r1' = RemoveZWSPColumn(r1)
    /\ r3' = RemoveZWSPColumn(r3)
    /\ pc' = "corrections"
    /\ UNCHANGED <<failed, roster_file, corrections_file, valid_sub_ids,
                   sub_ids_corrections, sub_num_key, written>>
    /\ UNCHANGED <<otherVars, binned_data>>

\* valid_sub_ids: the first column of the roster, stripped and uppercased
ValidSubIds(file) == {StripUpperStr(file[i][1]) : i \in 1..Len(file)}

\* sub_ids_corrections: both columns stripped and uppercased, INCORRECT the
\* key; to_dict keeps the last row of a repeated key
CorrectionsDict(file) ==
    LET Key(i) == StripUpperStr(file[i][1])
        keys == {Key(i) : i \in 1..Len(file)}
        Last(k) == CHOOSE i \in 1..Len(file) :
                       /\ Key(i) = k
                       /\ \A j \in 1..Len(file) : Key(j) = k => j <= i
    IN  [k \in keys |-> StripUpperStr(file[Last(k)][2])]

\* Mutant of Replace: the dict applied to its own result as well.
Replace_Twice(dict, s) ==
    LET once == IF s \in DOMAIN dict THEN dict[s] ELSE s
    IN  IF once \in DOMAIN dict THEN dict[once] ELSE once

\* Series.replace(dict) on one value: a value that is a key becomes that
\* key's value, once; any other value stays.
Replace(dict, s) == IF s \in DOMAIN dict THEN dict[s] ELSE s

\* The ID column of table t, Series.replace(dict) applied.
ReplaceColumn(t, dict) ==
    SetSubjid(t, [i \in 1..Len(t) |-> Replace(dict, t[i].subjid)])

\* Get a list of valid subject IDs; get a dict of errors and corrections;
\* apply corrections
ApplyCorrections ==
    /\ pc = "corrections"
    /\ valid_sub_ids' = ValidSubIds(roster_file)
    /\ sub_ids_corrections' = CorrectionsDict(corrections_file)
    /\ data' = ReplaceColumn(data, CorrectionsDict(corrections_file))
    /\ demo' = ReplaceColumn(demo, CorrectionsDict(corrections_file))
    /\ r1' = ReplaceColumn(r1, CorrectionsDict(corrections_file))
    /\ r3' = ReplaceColumn(r3, CorrectionsDict(corrections_file))
    /\ pc' = "problem_ids"
    /\ UNCHANGED <<failed, roster_file, corrections_file, sub_num_key, written>>
    /\ UNCHANGED <<otherVars, binned_data>>

\* Output a list of subject IDs in the data that don't appear in valid list
OutputProblemIds ==
    /\ pc = "problem_ids"
    /\ written' = written \cup {"daily_problem_sub_ids.csv",
                                "demo_problem_sub_ids.csv",
                                "r1_problem_sub_ids.csv",
                                "r3_problem_sub_ids.csv"}
    /\ pc' = "drop_invalid"
    /\ UNCHANGED <<failed, roster_file, corrections_file, data, demo, r1, r3,
                   valid_sub_ids, sub_ids_corrections, sub_num_key>>
    /\ UNCHANGED <<otherVars, binned_data>>

\* data = data[data['subjid_2'].isin(valid_sub_ids)], and so for every table
KeepValid(t, valid) == SelectSeq(t, LAMBDA r : r.subjid \in valid)

\* Drop subjects without a valid sub ID
DropInvalid ==
    /\ pc = "drop_invalid"
    /\ data' = KeepValid(data, valid_sub_ids)
    /\ demo' = KeepValid(demo, valid_sub_ids)
    /\ r1' = KeepValid(r1, valid_sub_ids)
    /\ r3' = KeepValid(r3, valid_sub_ids)
    /\ pc' = "sub_num_key"
    /\ UNCHANGED <<failed, roster_file, corrections_file, valid_sub_ids,
                   sub_ids_corrections, sub_num_key, written>>
    /\ UNCHANGED <<otherVars, binned_data>>

\* Mutant of RosterDupId: the assertion on sub_id left out.
RosterDupId_Never(file) == FALSE

\* sub_num_key.duplicated('sub_id', keep=False).any(), on the stripped and
\* uppercased IDs
RosterDupId(file) ==
    \E i, j \in 1..Len(file) :
        i # j /\ StripUpperStr(file[i][1]) = StripUpperStr(file[j][1])

\* Mutant of RosterDupNum: the assertion on sub_num left out.
RosterDupNum_Never(file) == FALSE

\* sub_num_key.duplicated('sub_num', keep=False).any()
RosterDupNum(file) ==
    \E i, j \in 1..Len(file) : i # j /\ file[i][2] = file[j][2]

\* sub_num_key.set_index('sub_id').squeeze().to_dict(): the last row of a
\* repeated ID stands
SubNumDict(file) ==
    LET Key(i) == StripUpperStr(file[i][1])
        keys == {Key(i) : i \in 1..Len(file)}
        Last(k) == CHOOSE i \in 1..Len(file) :
                       /\ Key(i) = k
                       /\ \A j \in 1..Len(file) : Key(j) = k => j <= i
    IN  [k \in keys |-> file[Last(k)][2]]

\* Replace subject strings with subject IDs: the key and its two assertions
LoadSubNumKey ==
    /\ pc = "sub_num_key"
    /\ IF RosterDupId(roster_file)
       THEN Halt("assert not sub_num_key.duplicated('sub_id')")
            /\ UNCHANGED sub_num_key
       ELSE IF RosterDupNum(roster_file)
       THEN Halt("assert not sub_num_key.duplicated('sub_num')")
            /\ UNCHANGED sub_num_key
       ELSE /\ sub_num_key' = SubNumDict(roster_file)
            /\ pc' = "check_ids"
            /\ UNCHANGED failed
    /\ UNCHANGED <<roster_file, corrections_file, data, demo, r1, r3,
                   valid_sub_ids, sub_ids_corrections, written>>
    /\ UNCHANGED <<otherVars, binned_data>>

\* t[id column].isin(sub_num_key.keys()).all()
AllInKey(t, key) == \A i \in 1..Len(t) : t[i].subjid \in DOMAIN key

\* The assertions that every ID left is a key, one per table
CheckIds ==
    /\ pc = "check_ids"
    /\ IF AllInKey(data, sub_num_key) /\ AllInKey(demo, sub_num_key)
          /\ AllInKey(r1, sub_num_key) /\ AllInKey(r3, sub_num_key)
       THEN pc' = "replace_data" /\ UNCHANGED failed
       ELSE Halt("assert isin(sub_num_key.keys()).all()")
    /\ UNCHANGED <<roster_file, corrections_file, data, demo, r1, r3,
                   valid_sub_ids, sub_ids_corrections, sub_num_key, written>>
    /\ UNCHANGED <<otherVars, binned_data>>

\* t[id column].replace(sub_num_key).astype(int), the column renamed sub_id:
\* every value is a key here, and becomes the key's number. The row keeps the
\* string in subjid; the script does not.
AssignSubNum(t, key) ==
    [i \in 1..Len(t) |-> [t[i] EXCEPT !.sub_id = key[t[i].subjid]]]

ReplaceData ==
    /\ pc = "replace_data"
    /\ IF AllInKey(data, sub_num_key)
       THEN /\ data' = AssignSubNum(data, sub_num_key)
            /\ pc' = "replace_demo"
            /\ UNCHANGED failed
       ELSE Halt("ValueError: astype(int)") /\ UNCHANGED data
    /\ UNCHANGED <<roster_file, corrections_file, demo, r1, r3,
                   valid_sub_ids, sub_ids_corrections, sub_num_key, written>>
    /\ UNCHANGED <<otherVars, binned_data>>

ReplaceDemo ==
    /\ pc = "replace_demo"
    /\ IF AllInKey(demo, sub_num_key)
       THEN /\ demo' = AssignSubNum(demo, sub_num_key)
            /\ pc' = "replace_r1"
            /\ UNCHANGED failed
       ELSE Halt("ValueError: astype(int)") /\ UNCHANGED demo
    /\ UNCHANGED <<roster_file, corrections_file, data, r1, r3,
                   valid_sub_ids, sub_ids_corrections, sub_num_key, written>>
    /\ UNCHANGED <<otherVars, binned_data>>

ReplaceR1 ==
    /\ pc = "replace_r1"
    /\ IF AllInKey(r1, sub_num_key)
       THEN /\ r1' = AssignSubNum(r1, sub_num_key)
            /\ pc' = "replace_r3"
            /\ UNCHANGED failed
       ELSE Halt("ValueError: astype(int)") /\ UNCHANGED r1
    /\ UNCHANGED <<roster_file, corrections_file, data, demo, r3,
                   valid_sub_ids, sub_ids_corrections, sub_num_key, written>>
    /\ UNCHANGED <<otherVars, binned_data>>

ReplaceR3 ==
    /\ pc = "replace_r3"
    /\ IF AllInKey(r3, sub_num_key)
       THEN /\ r3' = AssignSubNum(r3, sub_num_key)
            /\ pc' = "unique_id"
            /\ UNCHANGED failed
       ELSE Halt("ValueError: astype(int)") /\ UNCHANGED r3
    /\ UNCHANGED <<roster_file, corrections_file, data, demo, r1,
                   valid_sub_ids, sub_ids_corrections, sub_num_key, written>>
    /\ UNCHANGED <<otherVars, binned_data>>

\* The suffixes of the daily table's unique_id.
SuffixLong == <<"L">>

SuffixShort == <<"S">>

\* Mutant of SuffixApril18: one letter, as for the long form it is.
SuffixApril18_OneLetter == <<"L">>

SuffixApril18 == <<"L","A">>

SuffixNov15 == <<"L","B">>

\* unique_id of one row: record_id, then each of the four statements in turn
UniqueIdOf(r) ==
    LET k0 == IntToStr(r.record_id)
        k1 == IF r.redcap_repeat_instrument = "covid19"
              THEN k0 \o SuffixLong ELSE k0
        k2 == IF r.redcap_repeat_instrument = "covid19_short_survey"
              THEN k1 \o SuffixShort ELSE k1
        k3 == IF r.april_18_complete # "NaN" THEN k2 \o SuffixApril18 ELSE k2
    IN  IF r.nov15_complete # "NaN" THEN k3 \o SuffixNov15 ELSE k3

\* assert data['redcap_repeat_instrument'].isin([...]).all()
InstrumentsKnown(t) ==
    \A i \in 1..Len(t) :
        t[i].redcap_repeat_instrument \in {"covid19", "covid19_short_survey", "NaN"}

\* assert all(instrument.isna() == (april_18_complete.notna() | nov15_complete.notna()))
InstrumentsConsistent(t) ==
    \A i \in 1..Len(t) :
        (t[i].redcap_repeat_instrument = "NaN")
            <=> (t[i].april_18_complete # "NaN" \/ t[i].nov15_complete # "NaN")

\* INDEX & SORT: create unique ID from record_id column
CreateUniqueId ==
    /\ pc = "unique_id"
    /\ IF ~InstrumentsKnown(data)
       THEN Halt("assert redcap_repeat_instrument.isin") /\ UNCHANGED data
       ELSE IF ~InstrumentsConsistent(data)
       THEN Halt("assert redcap_repeat_instrument.isna") /\ UNCHANGED data
       ELSE /\ data' = [i \in 1..Len(data) |->
                           [data[i] EXCEPT !.unique_id = UniqueIdOf(data[i])]]
            /\ pc' = "index"
            /\ UNCHANGED failed
    /\ UNCHANGED <<roster_file, corrections_file, demo, r1, r3, valid_sub_ids,
                   sub_ids_corrections, sub_num_key, written>>
    /\ UNCHANGED <<otherVars, binned_data>>

\* index.duplicated(keep=False).any(), of the index values in row order
IndexDuplicated(index) ==
    \E i, j \in 1..Len(index) : i # j /\ index[i] = index[j]

\* The column record_id of table t.
RecordIdColumn(t) == [i \in 1..Len(t) |-> t[i].record_id]

\* Index by record ID: set_index and the assertion, table by table
SetIndex ==
    /\ pc = "index"
    /\ IF IndexDuplicated([i \in 1..Len(data) |-> data[i].unique_id])
       THEN Halt("assert not data.index.duplicated")
       ELSE IF IndexDuplicated(RecordIdColumn(demo))
       THEN Halt("assert not demo.index.duplicated")
       ELSE IF IndexDuplicated(RecordIdColumn(r1))
       THEN Halt("assert not r1.index.duplicated")
       ELSE IF IndexDuplicated(RecordIdColumn(r3))
       THEN Halt("assert not r3.index.duplicated")
       ELSE pc' = "sort" /\ UNCHANGED failed
    /\ UNCHANGED <<roster_file, corrections_file, data, demo, r1, r3,
                   valid_sub_ids, sub_ids_corrections, sub_num_key, written>>
    /\ UNCHANGED <<otherVars, binned_data>>

\* Lexicographic order of two sort keys <<a, b>>
KeyLess(k, l) == k[1] < l[1] \/ (k[1] = l[1] /\ k[2] < l[2])

\* The pair p of a key and a row put into the sorted pairs s, after the pairs
\* that are not greater.
RECURSIVE InsertRow(_, _)
InsertRow(p, s) ==
    IF s = <<>> THEN <<p>>
    ELSE IF KeyLess(p[1], Head(s)[1]) THEN <<p>> \o s
    ELSE <<Head(s)>> \o InsertRow(p, Tail(s))

RECURSIVE SortPairs(_)
SortPairs(s) ==
    IF s = <<>> THEN <<>>
    ELSE InsertRow(s[Len(s)], SortPairs(SubSeq(s, 1, Len(s) - 1)))

\* t.sort_values([a, b]), keys the pairs <<a, b>> of the rows: rows of equal
\* keys keep their order
SortValues(t, keys) ==
    LET sorted == SortPairs([i \in 1..Len(t) |-> <<keys[i], t[i]>>])
    IN  [i \in 1..Len(t) |-> sorted[i][2]]

\* Mutant of RoundSortKey: sorted by sub_id alone.
RoundSortKey_SubIdOnly(r) == <<r.sub_id, 0>>

\* ['sub_id', 'record_id']
RoundSortKey(r) == <<r.sub_id, r.record_id>>

\* A sort key after every date: sort_values puts missing values last.
NaLast == 100000

\* ['sub_id', 'todays_date']
DailySortKey(r) ==
    <<r.sub_id, IF r.todays_date = NaN THEN NaLast ELSE r.todays_date>>

\* Sort
SortTables ==
    /\ pc = "sort"
    /\ data' = SortValues(data, [i \in 1..Len(data) |-> DailySortKey(data[i])])
    /\ demo' = SortValues(demo, [i \in 1..Len(demo) |-> RoundSortKey(demo[i])])
    /\ r1' = SortValues(r1, [i \in 1..Len(r1) |-> RoundSortKey(r1[i])])
    /\ r3' = SortValues(r3, [i \in 1..Len(r3) |-> RoundSortKey(r3[i])])
    /\ pc' = "output_raw"
    /\ UNCHANGED <<failed, roster_file, corrections_file, valid_sub_ids,
                   sub_ids_corrections, sub_num_key, written>>
    /\ UNCHANGED <<otherVars, binned_data>>

\* OUTPUT RAW DATA
OutputRaw ==
    /\ pc = "output_raw"
    /\ written' = written \cup
           {"COVID19_combined_raw.csv", "COVID19_combined_raw_deid.csv",
            "COVID19_demographics_raw.csv", "COVID19_demographics_raw_deid.csv",
            "COVID19_Round1_raw.csv", "COVID19_Round1_raw_deid.csv",
            "COVID19_Round3_raw.csv", "COVID19_Round3_raw_deid.csv"}
    /\ pc' = "drop_duplicates"
    /\ UNCHANGED <<failed, roster_file, corrections_file, data, demo, r1, r3,
                   valid_sub_ids, sub_ids_corrections, sub_num_key>>
    /\ UNCHANGED <<otherVars, binned_data>>

\* Mutant of DropDuplicatesFirst: keep='last'.
DropDuplicatesFirst_Last(t) ==
    LET keep == {i \in 1..Len(t) :
                    \A j \in 1..Len(t) : t[j].sub_id = t[i].sub_id => j <= i}
        RECURSIVE Pick(_)
        Pick(i) == IF i > Len(t) THEN <<>>
                   ELSE (IF i \in keep THEN <<t[i]>> ELSE <<>>) \o Pick(i + 1)
    IN  Pick(1)

\* t.drop_duplicates('sub_id', keep='first')
DropDuplicatesFirst(t) ==
    LET keep == {i \in 1..Len(t) :
                    \A j \in 1..Len(t) : t[j].sub_id = t[i].sub_id => j >= i}
        RECURSIVE Pick(_)
        Pick(i) == IF i > Len(t) THEN <<>>
                   ELSE (IF i \in keep THEN <<t[i]>> ELSE <<>>) \o Pick(i + 1)
    IN  Pick(1)

\* demo['sub_id'].duplicated(keep=False).any()
SubIdDuplicated(t) ==
    \E i, j \in 1..Len(t) : i # j /\ t[i].sub_id = t[j].sub_id

\* DROP DUPLICATES AND INCOMPLETE DATA
DropDuplicates ==
    /\ pc = "drop_duplicates"
    /\ data' = SelectSeq(data, LAMBDA r : ~r.not_completed)
    /\ IF SubIdDuplicated(demo)
       THEN Halt("assert not demo['sub_id'].duplicated") /\ UNCHANGED <<r1, r3>>
       ELSE /\ r1' = DropDuplicatesFirst(r1)
            /\ r3' = DropDuplicatesFirst(r3)
            /\ pc' = "formatting"
            /\ UNCHANGED failed
    /\ UNCHANGED <<roster_file, corrections_file, demo, valid_sub_ids,
                   sub_ids_corrections, sub_num_key, written>>
    /\ UNCHANGED <<otherVars, binned_data>>

----------------------------------------------------------------------------
(* FORMATTING and REFERENCE DATE of the daily table. Dates and timestamps  *)
(* are whole hours since a midnight: the day is the quotient by 24 and the *)
(* time of day the remainder.                                               *)

DayHours == 24

\* Series.dt.normalize(): midnight of the day
Normalize(t) == IF t = NaN THEN NaN ELSE (t \div DayHours) * DayHours

\* Mutant of AlcoholCeiling: the ceiling of one drink an hour of a day.
AlcoholCeiling_24 == DayHours

\* data['alcohol_bev']>48
AlcoholCeiling == 48

\* t[columns] += -1, on one value
StartAtZero(v) == IF v = NaN THEN NaN ELSE v - 1

\* data.loc[data[col] > ceiling, col] = np.nan, on one value
RemoveImpossible(v, ceiling) == IF v # NaN /\ v > ceiling THEN NaN ELSE v

\* FORMATTING: DAILY SURVEYS. Of the columns formatted here the model has
\* redcap_timestamp, which the script combines from the timestamp of the
\* row's source, and alcohol_bev.
FormatDaily ==
    /\ pc = "formatting"
    /\ IF \E i \in 1..Len(data) : data[i].redcap_timestamp = NaN
       THEN Halt("assert data['redcap_timestamp'].notna().all()")
            /\ UNCHANGED data
       ELSE /\ data' = [i \in 1..Len(data) |->
                           [data[i] EXCEPT
                                !.depression =
                                    [k \in 1..8 |-> StartAtZero(@[k])],
                                !.night_awakening_time =
                                    RemoveImpossible(
                                        IF data[i].sleepdiary_wakes = 0
                                        THEN 0 ELSE @, Hour24),
                                !.sleepdiary_sleeplatency =
                                    RemoveImpossible(@, Hour24),
                                !.alcohol_bev =
                                    RemoveImpossible(@, AlcoholCeiling)]]
            /\ pc' = "reference_date"
            /\ UNCHANGED failed
    /\ UNCHANGED <<roster_file, corrections_file, demo, r1, r3, valid_sub_ids,
                   sub_ids_corrections, sub_num_key, written>>
    /\ UNCHANGED <<otherVars, binned_data>>

\* Mutant of sub_date_duplicates: keep='first', the first of a group not
\* marked.
sub_date_duplicates_KeepFirst(t, i) ==
    \E j \in 1..Len(t) :
        /\ j < i
        /\ t[j].sub_id = t[i].sub_id
        /\ Normalize(t[j].todays_date) = Normalize(t[i].todays_date)

\* sub_date_duplicates(data, keep=False), for row i of table t: another row
\* has the sub_id and the day of todays_date
sub_date_duplicates(t, i) ==
    \E j \in 1..Len(t) :
        /\ j # i
        /\ t[j].sub_id = t[i].sub_id
        /\ Normalize(t[j].todays_date) = Normalize(t[i].todays_date)

\* np.abs(todays_date - redcap_timestamp) > pd.Timedelta(1, unit='days')
DatesApart(r) ==
    /\ r.todays_date # NaN /\ r.redcap_timestamp # NaN
    /\ \/ r.todays_date - r.redcap_timestamp > DayHours
       \/ r.redcap_timestamp - r.todays_date > DayHours

\* idx of the REFERENCE DATE section, for row i of table t
DateProblem(t, i) == sub_date_duplicates(t, i) \/ DatesApart(t[i])

\* Mutant of EarlyMorning: 04:00 left out.
EarlyMorning_Before4(r) == r.todays_date # NaN /\ r.todays_date % DayHours < 4

\* between_time('00:00', '04:00') on todays_date, both ends included
EarlyMorning(r) == r.todays_date # NaN /\ r.todays_date % DayHours <= 4

\* ref_date of row i of table t: the day before todays_date, two days before
\* an early morning, midnight of it; NaT for a row with a date problem
RefDate(t, i) ==
    IF DateProblem(t, i) THEN NaN
    ELSE Normalize(t[i].todays_date - DayHours
                       - (IF EarlyMorning(t[i]) THEN DayHours ELSE 0))

\* data['ref_date'].min(): the least date there is, NaT of none
MinRefDate(refs) ==
    IF \A i \in 1..Len(refs) : refs[i] = NaN THEN NaN
    ELSE CHOOSE m \in {refs[i] : i \in 1..Len(refs)} \ {NaN} :
             \A i \in 1..Len(refs) : refs[i] # NaN => m <= refs[i]

\* REFERENCE DATE. ref_date_problem says that the row is written to
\* ref_date_problems.csv.
ReferenceDate ==
    /\ pc = "reference_date"
    /\ LET refs == [i \in 1..Len(data) |-> RefDate(data, i)]
       IN  data' = [i \in 1..Len(data) |->
                       [data[i] EXCEPT
                            !.ref_date_problem = DateProblem(data, i),
                            !.ref_date = refs[i],
                            !.days_elapsed =
                                IF refs[i] = NaN THEN NaN
                                ELSE (refs[i] - MinRefDate(refs)) \div DayHours]]
    /\ written' = written \cup {"ref_date_problems.csv"}
    /\ pc' = "format_demo"
    /\ UNCHANGED <<failed, roster_file, corrections_file, demo, r1, r3,
                   valid_sub_ids, sub_ids_corrections, sub_num_key>>
    /\ UNCHANGED <<otherVars, binned_data>>

----------------------------------------------------------------------------
(* FORMATTING of the demographics and of the round tables: the columns of  *)
(* countries and the hours of sleep of round 1.                            *)

UnitedStates == <<"U","N","I","T","E","D"," ","S","T","A","T","E","S">>
UnitedKingdom == <<"U","N","I","T","E","D"," ","K","I","N","G","D","O","M">>
Canada == <<"C","A","N","A","D","A">>
Country_USA == <<"U","S","A">>
Country_UK == <<"U","K">>
Country_YES == <<"Y","E","S">>
Country_NARNIA == <<"N","A","R","N","I","A">>

\* countries.txt, read and put to upper case: three of its lines
countries == {UnitedStates, UnitedKingdom, Canada}

\* Two of the entries of country_corrections
country_corrections ==
    (Country_USA :> UnitedStates) @@ (Country_UK :> UnitedKingdom)

\* Three of the entries of r3_country_corrections, one of them to np.nan
r3_country_corrections ==
    (Country_USA :> UnitedStates) @@ (Country_UK :> UnitedKingdom)
        @@ (Country_YES :> NaS)

\* .str.strip().str.upper() and .replace(dict) of one value of a column; the
\* string methods leave NaN as it is
CleanCountry(c, dict) ==
    IF c = NaS THEN NaS ELSE Replace(dict, StripUpperStr(c))

\* The record IDs whose country the script sets by hand
ManualCountryRecords == <<1563, 1748, 1650>>

\* The row that t.loc[rec, 'country'] = c adds to a table that has no row
\* of index rec: missing but for the index and the country
EnlargedRow(rec, c) ==
    [PlainRow(0, rec, <<>>) EXCEPT !.age1 = NaN, !.country = c]

\* t.loc[rec, 'country'] = c, of a table indexed by record_id
SetCountry(t, rec, c) ==
    IF \E i \in 1..Len(t) : t[i].record_id = rec
    THEN [i \in 1..Len(t) |->
             IF t[i].record_id = rec THEN [t[i] EXCEPT !.country = c] ELSE t[i]]
    ELSE Append(t, EnlargedRow(rec, c))

\* demo['age1']>118
AgeCeiling == 118

\* demo['country'].isin(countries).all()
CountriesKnown(t) == \A i \in 1..Len(t) : t[i].country \in countries

\* FORMATTING: DEMOGRAPHIC DATA, the country and the age
FormatDemo ==
    /\ pc = "format_demo"
    /\ LET cleaned == [i \in 1..Len(demo) |->
                          [demo[i] EXCEPT !.country =
                               CleanCountry(@, country_corrections)]]
           manual == SetCountry(SetCountry(SetCountry(cleaned,
                         ManualCountryRecords[1], UnitedStates),
                         ManualCountryRecords[2], UnitedStates),
                         ManualCountryRecords[3], UnitedStates)
       IN  IF CountriesKnown(manual)
           THEN /\ demo' = [i \in 1..Len(manual) |->
                               [manual[i] EXCEPT !.age1 =
                                    RemoveImpossible(@, AgeCeiling)]]
                /\ pc' = "format_r1"
                /\ UNCHANGED failed
           ELSE /\ demo' = manual
                /\ Halt("assert demo['country'].isin(countries).all()")
    /\ UNCHANGED <<roster_file, corrections_file, data, r1, r3, valid_sub_ids,
                   sub_ids_corrections, sub_num_key, written>>
    /\ UNCHANGED <<otherVars, binned_data>>

\* r1['psqi_4'] > 24
SleepHoursCeiling == 24

\* FORMATTING: ROUND 1, the PSQI
FormatRound1 ==
    /\ pc = "format_r1"
    /\ IF \A i \in 1..Len(r1) :
              /\ ValidTime(r1[i].psqi_1) /\ ValidTime(r1[i].psqi_3)
              /\ ValidTime(r1[i].mtq_p3) /\ ValidTime(r1[i].mtq_p4)
              /\ ValidTime(r1[i].mtq_p5) /\ ValidTime(r1[i].mtq_p6)
       THEN pc' = "format_r3" /\ UNCHANGED failed
       ELSE Halt("assert all(r1[col].between(0, 24 hours) | r1[col].isna())")
    /\ r1' = [i \in 1..Len(r1) |->
                 [r1[i] EXCEPT
                      !.psqi_5a = StartAtZero(@),
                      !.psqi_5b_5j = [k \in 1..9 |-> StartAtZero(@[k])],
                      !.psqi_6 = StartAtZero(@), !.psqi_7 = StartAtZero(@),
                      !.psqi_8 = StartAtZero(@), !.psqi_9 = StartAtZero(@),
                      !.psqi_4 = RemoveImpossible(@, SleepHoursCeiling)]]
    /\ UNCHANGED <<roster_file, corrections_file, data, demo, r3,
                   valid_sub_ids, sub_ids_corrections, sub_num_key, written>>
    /\ UNCHANGED <<otherVars, binned_data>>

\* all(r3['country_3mo'].isin(countries) | r3['country_3mo'].isna())
CountriesKnownOrMissing(t) ==
    \A i \in 1..Len(t) :
        t[i].country_3mo \in countries \/ t[i].country_3mo = NaS

\* FORMATTING: ROUND 3, the country
FormatRound3 ==
    /\ pc = "format_r3"
    /\ LET cleaned == [i \in 1..Len(r3) |->
                          [r3[i] EXCEPT !.country_3mo =
                               CleanCountry(@, r3_country_corrections)]]
       IN  /\ r3' = cleaned
           /\ IF CountriesKnownOrMissing(cleaned)
              THEN pc' = "calculated" /\ UNCHANGED failed
              ELSE Halt("assert all(r3['country_3mo'].isin(countries) | isna())")
    /\ UNCHANGED <<roster_file, corrections_file, data, demo, r1,
                   valid_sub_ids, sub_ids_corrections, sub_num_key, written>>
    /\ UNCHANGED <<otherVars, binned_data>>

----------------------------------------------------------------------------
(* CALCULATED VARIABLES: the scores that are sums of items                 *)

\* Mutant of SumSkipnaFalse: skipna=True, the sum of the items there are.
RECURSIVE SumSkipnaFalse_SkipNa(_)
SumSkipnaFalse_SkipNa(items) ==
    IF items = <<>> THEN 0
    ELSE (IF Head(items) = NaN THEN 0 ELSE Head(items))
             + SumSkipnaFalse_SkipNa(Tail(items))

\* t[columns].sum(axis=1, skipna=False) of one row: the items in column order
RECURSIVE SumSkipnaFalse(_)
SumSkipnaFalse(items) ==
    IF items = <<>> THEN 0
    ELSE LET rest == SumSkipnaFalse(Tail(items))
         IN  IF Head(items) = NaN \/ rest = NaN THEN NaN
             ELSE Head(items) + rest

\* data['TST'], in minutes: the sleep attempt less the minutes awake in the
\* night and the minutes to fall asleep, and missing if negative
TotalSleepTime(attempt, awakening, latency) ==
    IF attempt = NaN \/ awakening = NaN \/ latency = NaN THEN NaN
    ELSE IF attempt - (awakening + latency) < 0 THEN NaN
    ELSE attempt - (awakening + latency)

\* data['SE'] > 1, of data['SE'] = data['TST'] / data['TIB']: a positive
\* time over 0 is inf, 0 over 0 is nan
EfficiencyOverOne(tst, tib) ==
    tst # NaN /\ tib # NaN /\ (tst > tib \/ (tib = 0 /\ tst > 0))

ApparentMistake_ZeroOnly(tst, tib) == tib = 0

\* The rows of which data.loc[..., ['SE', 'TST', 'TIB', 'sleepattempt']] = nan
\* makes the four columns missing: data['SE'] > 1, and then data['TIB'] == 0
ApparentMistake(tst, tib) == EfficiencyOverOne(tst, tib) \/ tib = 0

\* The sleep variables of the daily row r, calc_sleep_time having returned
\* tib for the time in bed and attempt for the sleep attempt
SleepVariables(r, tib, attempt) ==
    LET tst == TotalSleepTime(attempt, r.night_awakening_time,
                              r.sleepdiary_sleeplatency)
    IN  IF ApparentMistake(tst, tib)
        THEN [r EXCEPT !.SE = NaQ, !.TST = NaN, !.TIB = NaN,
                       !.sleepattempt = NaN]
        ELSE [r EXCEPT !.SE = IF tst = NaN \/ tib = NaN THEN NaQ
                               ELSE <<tst, tib>>,
                       !.TST = tst, !.TIB = tib, !.sleepattempt = attempt]

\* CALCULATED VARIABLES: DAILY SURVEYS & DEMOGRAPHICS
CalculatedDaily ==
    /\ pc = "calculated"
    /\ LET tib == [i \in 1..Len(data) |->
                      calc_sleep_time(data[i].sleepdiary_bedtime,
                                      data[i].sleepdiary_outofbed, TRUE, 3)]
           attempt == [i \in 1..Len(data) |->
                          calc_sleep_time(data[i].sleepdiary_fallasleep,
                                          data[i].sleepdiary_waketime, TRUE, 2)]
       IN  IF \E i \in 1..Len(data) : tib[i].exc # ""
           THEN Halt((CHOOSE i \in 1..Len(data) : tib[i].exc # "").exc)
                /\ UNCHANGED <<data, written>>
           ELSE IF \E i \in 1..Len(data) : attempt[i].exc # ""
           THEN Halt((CHOOSE i \in 1..Len(data) : attempt[i].exc # "").exc)
                /\ UNCHANGED <<data, written>>
           ELSE /\ data' = [i \in 1..Len(data) |->
                               [SleepVariables(data[i], tib[i].st, attempt[i].st)
                                   EXCEPT
                                    !.PANAS_PA = SumSkipnaFalse(data[i].panas_pa),
                                    !.PANAS_NA = SumSkipnaFalse(data[i].panas_na),
                                    !.PHQ9 = SumSkipnaFalse(data[i].depression)]]
                /\ written' = written \cup {"sleepvariables.csv"}
                /\ pc' = "calculated_r1"
                /\ UNCHANGED failed
    /\ UNCHANGED <<roster_file, corrections_file, demo, r1, r3,
                   valid_sub_ids, sub_ids_corrections, sub_num_key>>
    /\ UNCHANGED <<otherVars, binned_data>>

\* r1['PSQIDURAT'], of the hours of sleep h
PSQIDURAT(h) ==
    IF h = NaN THEN NaN
    ELSE IF h < 5 THEN 3 ELSE IF h < 6 THEN 2 ELSE IF h < 7 THEN 1 ELSE 0

\* r1.loc[r1['psqi_5j2'].isna() | r1['psqi_5j'].isna(), 'psqi_5j'] = 0: the
\* items psqi_5b .. psqi_5j of row r after it, psqi_5j the ninth
Psqi5jFilled(r) ==
    IF r.psqi_5j2 = NaS \/ r.psqi_5b_5j[9] = NaN
    THEN [r.psqi_5b_5j EXCEPT ![9] = 0]
    ELSE r.psqi_5b_5j

\* The bands of PSQIDISTB, of the sum s
DisturbanceBand(s) ==
    IF s = NaN THEN NaN
    ELSE IF s >= 1 /\ s <= 9 THEN 1
    ELSE IF s >= 10 /\ s <= 18 THEN 2
    ELSE IF s > 18 THEN 3 ELSE s

\* r1['PSQIDISTB'], of the items psqi_5b .. psqi_5j
PSQIDISTB(items) == DisturbanceBand(SumSkipnaFalse(items))

psqi_2NEW_From30(m) ==
    IF m = NaN THEN NaN
    ELSE IF m > 60 THEN 3 ELSE IF m >= 30 THEN 2 ELSE IF m > 15 THEN 1
    ELSE IF m >= 0 THEN 0 ELSE NaN

\* r1['psqi_2NEW'], of the minutes to fall asleep m
psqi_2NEW(m) ==
    IF m = NaN THEN NaN
    ELSE IF m > 60 THEN 3 ELSE IF m > 30 THEN 2 ELSE IF m > 15 THEN 1
    ELSE IF m >= 0 THEN 0 ELSE NaN

PairBand_NoBands(s) == s

\* The bands of PSQILATEN and of PSQIDAYDYS, of the sum s
PairBand(s) ==
    IF s \in {1, 2} THEN 1 ELSE IF s \in {3, 4} THEN 2
    ELSE IF s \in {5, 6} THEN 3 ELSE s

\* r1['PSQILATEN'] of row r
PSQILATEN(r) == PairBand(SumSkipnaFalse(<<psqi_2NEW(r.psqi_2), r.psqi_5a>>))

\* r1['PSQIDAYDYS'] of row r
PSQIDAYDYS(r) == PairBand(SumSkipnaFalse(<<r.psqi_8, r.psqi_9>>))

\* r1['PSQIHSE'], of the hours of sleep h and the minutes in bed tib: the
\* efficiency h / (tib / 60), missing if more than 1, by its bands of 0.85,
\* 0.75 and 0.65
PSQIHSE(h, tib) ==
    IF h = NaN \/ tib = NaN \/ tib = 0 \/ h * 60 > tib THEN NaN
    ELSE IF h * 6000 >= 85 * tib THEN 0
    ELSE IF h * 6000 >= 75 * tib THEN 1
    ELSE IF h * 6000 >= 65 * tib THEN 2
    ELSE 3

\* r1['PSQI_sleep_eff'] = r1['psqi_4'] / r1['PSQI_TIB'], of the hours of sleep
\* h and the minutes in bed tib, and missing if it is more than 1. A division
\* by 0 gives inf or nan, which either way ends as missing.
PSQI_sleep_eff(h, tib) ==
    IF h = NaN \/ tib = NaN \/ tib = 0 \/ h * 60 > tib THEN NaQ
    ELSE <<h * 60, tib>>

\* r1['PSQI_TIB'] after r1.loc[r1['PSQI_sleep_eff']>1, 'PSQI_TIB'] = np.nan,
\* which reads the efficiency after the line before it has made every
\* efficiency of more than 1 missing, and so selects no row.
PSQI_TIB(h, tib) ==
    IF PSQI_sleep_eff(h, tib) # NaQ
          /\ PSQI_sleep_eff(h, tib)[1] > PSQI_sleep_eff(h, tib)[2]
    THEN NaN
    ELSE tib

\* The scores of row r of round 1, calc_sleep_time having returned tib
PSQIScores(r, tib) ==
    LET items == Psqi5jFilled(r)
        durat == PSQIDURAT(r.psqi_4)
        distb == PSQIDISTB(items)
        laten == PSQILATEN(r)
        daydys == PSQIDAYDYS(r)
        hse == PSQIHSE(r.psqi_4, tib)
    IN  [r EXCEPT !.psqi_5b_5j = items,
                  !.PSQIDURAT = durat, !.PSQIDISTB = distb,
                  !.psqi_2NEW = psqi_2NEW(r.psqi_2),
                  !.PSQILATEN = laten, !.PSQIDAYDYS = daydys,
                  !.PSQI_sleep_eff = PSQI_sleep_eff(r.psqi_4, tib),
                  !.PSQI_TIB = PSQI_TIB(r.psqi_4, tib), !.PSQIHSE = hse,
                  !.PSQISLPQUAL = r.psqi_6, !.PSQIMEDS = r.psqi_7,
                  !.PSQI_TOTAL = SumSkipnaFalse(<<durat, distb, laten, daydys,
                                                  hse, r.psqi_6, r.psqi_7>>)]

\* isin([np.nan, 0, 1, 2, 3])
IsComponent(v) == v = NaN \/ v \in 0..3

\* calc_sleep_midpoint(bed, awake, correct_12=True, min_12=m12) of one row:
\* the exception it ends with (none: "") and the midpoint it returns
calc_sleep_midpoint(bed, awake, m12) ==
    LET r == calc_sleep_time(bed, awake, TRUE, m12)
        e == ConversionError(r.st)
        m == RoundMin(WrappedMidpoint2(RawMidpoint2(bed, r.st), r.corr12, e), e)
    IN  IF r.exc # "" THEN [exc |-> r.exc, sleep_midpoint |-> NaN]
        ELSE IF ~MidpointAccepted(m)
        THEN [exc |-> "AssertionError_midpoint", sleep_midpoint |-> NaN]
        ELSE [exc |-> "", sleep_midpoint |-> m]

\* ((freeday - workday)/2).apply(pd.Timedelta, unit='hours'), of a
\* difference of k minutes, which is k half minutes: the sign of the error
\* of the conversion, as in ConversionError
HalfConversionError(k) ==
    IF k % 3 = 1 THEN -1 ELSE IF k % 3 = 2 THEN 1 ELSE 0

\* r1['mtq_precovid_chronotype']: the midpoint of the sleep of the free
\* days, less half of what the sleep of the free days is longer than that
\* of the work days, rounded to the minute
Chronotype(midpoint, freeday, workday) ==
    IF midpoint # NaN /\ freeday # NaN /\ workday # NaN /\ freeday > workday
    THEN RoundMin(2 * midpoint - (freeday - workday),
                  0 - HalfConversionError(freeday - workday))
    ELSE midpoint

\* The calls of the Munich ChronoType Questionnaire calculations on row r, in
\* their order: the durations of the work days and of the free days, the
\* midpoints of the work days and of the free days
MTQCalls(r) ==
    << calc_sleep_time(r.mtq_p3, r.mtq_p4, TRUE, 2),
       calc_sleep_time(r.mtq_p5, r.mtq_p6, TRUE, 2),
       calc_sleep_midpoint(r.mtq_p3, r.mtq_p4, 2),
       calc_sleep_midpoint(r.mtq_p5, r.mtq_p6, 2) >>

\* Row r with its chronotype
MTQScores(r) ==
    [r EXCEPT !.mtq_precovid_chronotype =
                  Chronotype(MTQCalls(r)[4].sleep_midpoint,
                             MTQCalls(r)[2].st, MTQCalls(r)[1].st)]

\* CALCULATED VARIABLES: ROUND 1, the PSQI and the chronotype
CalculatedRound1 ==
    /\ pc = "calculated_r1"
    /\ LET tib == [i \in 1..Len(r1) |->
                      calc_sleep_time(r1[i].psqi_1, r1[i].psqi_3, TRUE, 3)]
           scored == [i \in 1..Len(r1) |-> PSQIScores(r1[i], tib[i].st)]
           raised == {c \in 1..4 : \E i \in 1..Len(r1) : MTQCalls(r1[i])[c].exc # ""}
       IN  IF \E i \in 1..Len(r1) : tib[i].exc # ""
           THEN Halt((CHOOSE i \in 1..Len(r1) : tib[i].exc # "").exc)
                /\ UNCHANGED r1
           ELSE IF \E i \in 1..Len(r1) : ~IsComponent(scored[i].PSQIDISTB)
           THEN Halt("assert r1['PSQIDISTB'].isin([np.nan, 0, 1, 2, 3]).all()")
                /\ r1' = scored
           ELSE IF \E i \in 1..Len(r1) : ~IsComponent(scored[i].PSQILATEN)
           THEN Halt("assert r1['PSQILATEN'].isin([np.nan, 0, 1, 2, 3]).all()")
                /\ r1' = scored
           ELSE IF \E i \in 1..Len(r1) :
                       /\ scored[i].PSQI_TOTAL # NaN
                       /\ ~(scored[i].PSQI_TOTAL \in 0..21)
           THEN Halt("assert all(r1['PSQI_TOTAL'].between(0, 21) | isna())")
                /\ r1' = scored
           ELSE IF raised # {}
           THEN LET c == CHOOSE c \in raised : \A d \in raised : c <= d
                IN  Halt((CHOOSE x \in {MTQCalls(r1[i])[c].exc :
                                            i \in 1..Len(r1)} : x # ""))
                /\ r1' = scored
           ELSE /\ r1' = [i \in 1..Len(r1) |-> MTQScores(scored[i])]
                /\ pc' = "quality_control"
                /\ UNCHANGED failed
    /\ UNCHANGED <<roster_file, corrections_file, data, demo, r3,
                   valid_sub_ids, sub_ids_corrections, sub_num_key, written>>
    /\ UNCHANGED <<otherVars, binned_data>>

\* daily_QC, demo_QC and R1_QC, the assertions on the PHQ9, on the age and
\* on the chronotype
QualityControlPasses ==
    /\ \A i \in 1..Len(data) :
           data[i].PHQ9 # NaN => data[i].PHQ9 >= 0 /\ data[i].PHQ9 <= 24
    /\ \A i \in 1..Len(r1) :
           r1[i].mtq_precovid_chronotype # NaN =>
               /\ r1[i].mtq_precovid_chronotype >= 0
               /\ r1[i].mtq_precovid_chronotype <= Hour24
    /\ \A i \in 1..Len(demo) :
           demo[i].age1 # NaN => demo[i].age1 >= 18 /\ demo[i].age1 <= AgeCeiling

\* QUALITY CONTROL
QualityControl ==
    /\ pc = "quality_control"
    /\ IF QualityControlPasses
       THEN pc' = "cleaned_output" /\ UNCHANGED failed
       ELSE Halt("AssertionError in COVID19_QC")
    /\ UNCHANGED <<roster_file, corrections_file, data, demo, r1, r3,
                   valid_sub_ids, sub_ids_corrections, sub_num_key, written>>
    /\ UNCHANGED <<otherVars, binned_data>>

\* CLEANED OUTPUT
CleanedOutput ==
    /\ pc = "cleaned_output"
    /\ written' = written \cup
           {"COVID19_combined_cleaned.csv", "COVID19_combined_cleaned_deid.csv",
            "COVID19_demographics_cleaned.csv",
            "COVID19_demographics_cleaned_deid.csv",
            "COVID19_Round1_cleaned.csv", "COVID19_Round1_cleaned_deid.csv",
            "COVID19_Round3_cleaned.csv", "COVID19_Round3_cleaned_deid.csv"}
    /\ pc' = "done"
    /\ UNCHANGED <<failed, roster_file, corrections_file, data, demo, r1, r3,
                   valid_sub_ids, sub_ids_corrections, sub_num_key>>
    /\ UNCHANGED <<otherVars, binned_data>>

----------------------------------------------------------------------------
(* Spec: the run over small raw files *)

\* The rows a raw round file may hold at most.
MaxRoundRows == 3

\* The rows a raw daily file may hold at most.
MaxDailyRows == 2

\* The largest record_id of a round file.
MaxRecordId == 3

\* calc_sleep_time and calc_sleep_midpoint take no part in Spec.
----------------------------------------------------------------------------
(* time_bin_data of the merge script, on the daily table of the cleaned    *)
(* export. Of the columns it reads, import_covid19_data leaves the index   *)
(* and sub_id as written and makes ref_date a date again.                  *)

\* time_bins: the first and the last reference date of each bin
TimeBins == << <<-48, -24>>, <<0, 24>> >>

\* data['ref_date'].between(start, end) of row r, for the bin b
date_idx(r, b) ==
    /\ r.ref_date # NaN
    /\ r.ref_date >= TimeBins[b][1]
    /\ r.ref_date <= TimeBins[b][2]

\* 'S' in x, of the index x of row r
short_idx(r) == \E k \in 1..Len(r.unique_id) : r.unique_id[k] = "S"

\* Mutant of full_idx: the last letter of the index is L.
full_idx_LastLetter(r) == r.unique_id[Len(r.unique_id)] = "L"

\* 'L' in x, of the index x of row r
full_idx(r) == \E k \in 1..Len(r.unique_id) : r.unique_id[k] = "L"

\* data.loc[date_idx & short_idx, 'sub_id'].value_counts(), for subject sub
short_counts(t, b, sub) ==
    Cardinality({i \in 1..Len(t) :
                    date_idx(t[i], b) /\ short_idx(t[i]) /\ t[i].sub_id = sub})

\* data.loc[date_idx & full_idx, 'sub_id'].value_counts(), for subject sub
full_counts(t, b, sub) ==
    Cardinality({i \in 1..Len(t) :
                    date_idx(t[i], b) /\ full_idx(t[i]) /\ t[i].sub_id = sub})

\* The groups of data[date_idx].groupby('sub_id'), which has no group of NaN
BinSubjects(t, b) ==
    {t[i].sub_id : i \in {j \in 1..Len(t) : date_idx(t[j], b)}} \ {NaN}

\* The numbers of the set S in a row, the least first
RECURSIVE Ascending(_)
Ascending(S) ==
    IF S = {} THEN <<>>
    ELSE LET least == CHOOSE x \in S : \A y \in S : x <= y
         IN  <<least>> \o Ascending(S \ {least})

\* range_mean with time_bin, full_N and short_N, for the bin b
range_mean(t, b) ==
    LET subs == Ascending(BinSubjects(t, b))
    IN  [k \in 1..Len(subs) |->
            [time_bin |-> b, sub_id |-> subs[k],
             full_N |-> full_counts(t, b, subs[k]),
             short_N |-> short_counts(t, b, subs[k])]]

\* range_mean[['short_N', 'full_N']].sum().sum()
RECURSIVE SumOfCounts(_)
SumOfCounts(rows) ==
    IF rows = <<>> THEN 0
    ELSE Head(rows).short_N + Head(rows).full_N + SumOfCounts(Tail(rows))

\* The assertion of time_bin_data that fails for the bin b ("" for none)
BinAssertion(t, b) ==
    IF Cardinality({i \in 1..Len(t) : short_idx(t[i]) \/ full_idx(t[i])}) # Len(t)
    THEN "assert sum(short_idx | full_idx) == len(data)"
    ELSE IF \E i \in 1..Len(t) : short_idx(t[i]) /\ full_idx(t[i])
    THEN "assert not any(short_idx & full_idx)"
    ELSE IF SumOfCounts(range_mean(t, b))
               # Cardinality({i \in 1..Len(t) : date_idx(t[i], b)})
    THEN "assert range_mean[['short_N', 'full_N']].sum().sum() == sum(date_idx)"
    ELSE ""

\* binned_data after the bins 1 .. b
RECURSIVE BinnedTo(_, _)
BinnedTo(t, b) ==
    IF b = 0 THEN <<>> ELSE BinnedTo(t, b - 1) \o range_mean(t, b)

\* time_bin_data(data, time_bins)
TimeBinData ==
    /\ pc = "done"
    /\ LET bad == {b \in 1..Len(TimeBins) : BinAssertion(data, b) # ""}
       IN  IF bad # {}
           THEN LET b == CHOOSE b \in bad : \A c \in bad : b <= c
                IN  /\ Halt(BinAssertion(data, b))
                    /\ binned_data' = BinnedTo(data, b - 1)
           ELSE /\ binned_data' = BinnedTo(data, Len(TimeBins))
                /\ pc' = "binned"
                /\ UNCHANGED failed
    /\ UNCHANGED <<roster_file, corrections_file, data, demo, r1, r3,
                   valid_sub_ids, sub_ids_corrections, sub_num_key, written>>
    /\ UNCHANGED otherVars

----------------------------------------------------------------------------
(* SpecClock: one clock time written to a csv file and read back *)

\* The Timedeltas of a cell: every whole minute of the day, 24:00, a missing
\* value, and the times before 0:00 and after 24:00 that the assertions of
\* timedelta2str are for.
ClockInputs == (0..Hour24) \cup {NaN, -60, BadTime}

\* Mutant of TwoDigits: the digits of the number, without a leading zero.
TwoDigits_NoPadding(n) == IntToStr(n)

\* The hours, or the minutes, of str(Timedelta): two digits
TwoDigits(n) == IF n < 10 THEN <<"0">> \o IntToStr(n) ELSE IntToStr(n)

\* str(td.round('min')).split()[-1][0:5] of a td that is not missing:
\* str(td) is 'D days HH:MM:SS', of which the days are split off
timedelta2str(t) ==
    TwoDigits((t % Hour24) \div 60) \o <<":">> \o TwoDigits(t % 60)

\* The number a digit stands for
DigitValue(c) == CHOOSE k \in 0..9 : IntToStr(k) = <<c>>

\* pd.to_datetime(cell) - pd.Timestamp.today().normalize(): the hours and
\* the minutes of the cell after today's midnight; an empty cell is read as
\* NaN, which stays missing
ClockOfCell(c) ==
    IF c = <<>> THEN NaN
    ELSE (DigitValue(c[1]) * 10 + DigitValue(c[2])) * 60
             + DigitValue(c[4]) * 10 + DigitValue(c[5])

InitClock ==
    /\ td \in ClockInputs
    /\ cell = <<>> /\ imported = NaN /\ cpc = "td"
    /\ SleepIdle
    /\ ScoreIdle
    /\ RunIdle

\* df2csv: timedelta2str(td)
Timedelta2Str ==
    /\ cpc = "td"
    /\ IF td = NaN
       THEN cell' = <<>> /\ cpc' = "csv"
       ELSE IF td < 0
       THEN cpc' = "assert td >= pd.Timedelta(0)" /\ UNCHANGED cell
       ELSE IF td > Hour24
       THEN cpc' = "assert td <= pd.Timedelta(24, unit='hours')" /\ UNCHANGED cell
       ELSE cell' = timedelta2str(td) /\ cpc' = "csv"
    /\ UNCHANGED <<td, imported>>
    /\ UNCHANGED <<sleepVars, runVars, scoreVars, binned_data>>

\* import_covid19_data: the clock times made timedeltas
ImportClock ==
    /\ cpc = "csv"
    /\ imported' = ClockOfCell(cell)
    /\ cpc' = "imported"
    /\ UNCHANGED <<td, cell>>
    /\ UNCHANGED <<sleepVars, runVars, scoreVars, binned_data>>

NextClock == Timedelta2Str \/ ImportClock

SpecClock == InitClock /\ [][NextClock]_vars

----------------------------------------------------------------------------
(* SpecScore: one composite with reverse-scored items *)

\* The least and the greatest answer to an item of the scale, as R1_QC and
\* R2_QC assert them
ScaleFloor(name) == IF name = "Big_5_Extraversion" THEN 1 ELSE 0

ScaleCeiling(name) == IF name = "Big_5_Extraversion" THEN 5 ELSE 4

\* The number of items of the scale, and the places of the reverse-scored
\* ones in the sum of the script
ScaleLength(name) ==
    IF name = "Big_5_Extraversion" THEN 6
    ELSE IF name = "TEQ_TOTAL" THEN 16 ELSE 10

ReverseItems(name) ==
    IF name = "Big_5_Extraversion" THEN {1, 5, 6}
    ELSE IF name = "TEQ_TOTAL" THEN 9..16 ELSE 7..10

\* k - v and a + b of floats, NaN being contagious
Minus(k, v) == IF v = NaN THEN NaN ELSE k - v

Plus(a, b) == IF a = NaN \/ b = NaN THEN NaN ELSE a + b

\* r1['Big_5_Extraversion'], of big5_1, big5_6, big5_11, big5_16, big5_21
\* and big5_26
Big_5_Extraversion(b) ==
    Plus(Plus(Plus(Plus(Plus(Minus(6, b[1]), b[2]), b[3]), b[4]),
              Minus(6, b[5])), Minus(6, b[6]))

\* r2['TEQ_TOTAL'], of teq_1, 3, 5, 6, 8, 9, 13, 16 and then teq_2, 4, 7,
\* 10, 11, 12, 14, 15
TEQ_TOTAL(t) ==
    Plus(SumSkipnaFalse(SubSeq(t, 1, 8)),
         SumSkipnaFalse([k \in 1..8 |-> Minus(4, t[8 + k])]))

\* Mutant of PSS_TOTAL: the reverse-scored items taken from 5.
PSS_TOTAL_From5(q) ==
    Plus(SumSkipnaFalse(SubSeq(q, 1, 6)),
         SumSkipnaFalse([k \in 1..4 |-> Minus(5, q[6 + k])]))

\* r2['PSS_TOTAL'], of pss_1, 2, 3, 6, 9, 10 and then pss_4, 5, 7, 8
PSS_TOTAL(q) ==
    Plus(SumSkipnaFalse(SubSeq(q, 1, 6)),
         SumSkipnaFalse([k \in 1..4 |-> Minus(4, q[6 + k])]))

\* The answers given to the reverse-scored items: the ends of the scale and,
\* but for the 16 items of the TEQ, its middle
ReverseAnswers(name) ==
    IF name = "TEQ_TOTAL" THEN {ScaleFloor(name), ScaleCeiling(name)}
    ELSE {ScaleFloor(name), ScaleFloor(name) + 2, ScaleCeiling(name)}

\* One subject's answers: the same answer to every forward item, any of
\* ReverseAnswers to each reverse-scored item, and at most one answer
\* missing.
ScoreInputs(name) ==
    LET whole == {[k \in 1..ScaleLength(name) |->
                      IF k \in ReverseItems(name) THEN r[k] ELSE f] :
                  f \in ScaleFloor(name)..ScaleCeiling(name),
                  r \in [ReverseItems(name) -> ReverseAnswers(name)]}
        holed == {[k \in 1..ScaleLength(name) |->
                      IF k = m THEN NaN ELSE ScaleCeiling(name)] :
                  m \in 1..ScaleLength(name)}
    IN  whole \cup holed

InitScore ==
    /\ scale \in {"Big_5_Extraversion", "TEQ_TOTAL", "PSS_TOTAL"}
    /\ answers \in ScoreInputs(scale)
    /\ score = NaN /\ qpc = "items"
    /\ SleepIdle
    /\ ClockIdle
    /\ RunIdle

\* CALCULATED VARIABLES: ROUND 1, the Big 5 calculations
ScoreBig5 ==
    /\ qpc = "items" /\ scale = "Big_5_Extraversion"
    /\ score' = Big_5_Extraversion(answers)
    /\ qpc' = "scored"
    /\ UNCHANGED <<scale, answers>>
    /\ UNCHANGED <<sleepVars, runVars, clockVars, binned_data>>

\* CALCULATED VARIABLES: ROUND 2, the Toronto Empathy Questionnaire
ScoreTEQ ==
    /\ qpc = "items" /\ scale = "TEQ_TOTAL"
    /\ score' = TEQ_TOTAL(answers)
    /\ qpc' = "scored"
    /\ UNCHANGED <<scale, answers>>
    /\ UNCHANGED <<sleepVars, runVars, clockVars, binned_data>>

\* CALCULATED VARIABLES: ROUND 2, the Perceived Stress Scale
ScorePSS ==
    /\ qpc = "items" /\ scale = "PSS_TOTAL"
    /\ score' = PSS_TOTAL(answers)
    /\ qpc' = "scored"
    /\ UNCHANGED <<scale, answers>>
    /\ UNCHANGED <<sleepVars, runVars, clockVars, binned_data>>

NextScore == ScoreBig5 \/ ScoreTEQ \/ ScorePSS

SpecScore == InitScore /\ [][NextScore]_vars

RunStart ==
    /\ pc = "dropna" /\ failed = ""
    /\ valid_sub_ids = {} /\ sub_ids_corrections = <<>> /\ sub_num_key = <<>>
    /\ written = {}
    /\ binned_data = <<>>

\* The columns that tell the four sources of daily rows apart, a long-form
\* row left '[not completed]', an instrument the script does not know, and a
\* row of two sources at once.
DailyVariants ==
    { [inst |-> "covid19", apr |-> "NaN", nov |-> "NaN", notdone |-> FALSE],
      [inst |-> "covid19", apr |-> "NaN", nov |-> "NaN", notdone |-> TRUE],
      [inst |-> "covid19_short_survey", apr |-> "NaN", nov |-> "NaN", notdone |-> FALSE],
      [inst |-> "NaN", apr |-> "2", nov |-> "NaN", notdone |-> FALSE],
      [inst |-> "NaN", apr |-> "NaN", nov |-> "2", notdone |-> FALSE],
      [inst |-> "other", apr |-> "NaN", nov |-> "NaN", notdone |-> FALSE],
      [inst |-> "covid19", apr |-> "2", nov |-> "NaN", notdone |-> FALSE] }

\* record_id, todays_date and subjid_2 of a daily row.
DailyRecords == { <<1, 1, Raw_b7k9m>>, <<12, 2, Id_A1B2C4>> }

\* The daily rows: every source under every record, and a long-form row
\* without its date.
DailyRows ==
    {<<rec, v>> : rec \in DailyRecords, v \in DailyVariants}
        \cup {<<<<1, NaN, Raw_b7k9m>>, v>> :
                  v \in {w \in DailyVariants : w.inst = "covid19" /\ w.apr = "NaN"
                                                    /\ ~w.notdone}}

\* Subject IDs in every table, against every roster and corrections file.
InitIds ==
    /\ r3 = <<>>
    /\ roster_file \in RosterFiles
    /\ corrections_file \in CorrectionFiles
    /\ \E x, y \in RawIds :
        /\ data = << RawRow(1, 1, x, 1, "covid19", "NaN", "NaN", FALSE),
                     RawRow(2, 2, y, 2, "covid19_short_survey", "NaN", "NaN", FALSE) >>
        /\ demo = << PlainRow(1, 1, y) >>
        /\ r1 = << PlainRow(1, 1, y), PlainRow(2, 2, x) >>

\* Round files of up to MaxRoundRows rows, in any order of record_id: the
\* rows of one subject, then the rows of another.
InitRounds ==
    /\ r3 = <<>>
    /\ roster_file = BaseRoster
    /\ corrections_file \in {f \in CorrectionFiles : Len(f) = 1}
    /\ data = << RawRow(1, 1, Raw_b7k9m, 1, "covid19", "NaN", "NaN", FALSE) >>
    /\ demo = << PlainRow(1, 1, Raw_b7k9m), PlainRow(2, 2, Id_A1B2C4) >>
    /\ \E n \in 0..MaxRoundRows :
       \E rec \in [1..n -> 1..MaxRecordId] :
       \E k \in 0..n :
           r1 = [i \in 1..n |->
                    PlainRow(i, rec[i], IF i <= k THEN Id_A1B2C4 ELSE Raw_b7k9m)]

\* Demographics files of up to two rows, of any age.
InitDemo ==
    /\ r3 = <<>>
    /\ roster_file = BaseRoster
    /\ corrections_file \in {f \in CorrectionFiles : Len(f) = 1}
    /\ data = <<>>
    /\ r1 = <<>>
    /\ \E n \in 0..2 :
       \E rec \in [1..n -> 1..2] :
       \E id \in [1..n -> {Id_A1B2C4, Raw_b7k9m}] :
       \E age \in [1..n -> {NaN, 17, 30}] :
           demo = [i \in 1..n |-> [PlainRow(i, rec[i], id[i]) EXCEPT !.age1 = age[i]]]

\* Daily files of up to MaxDailyRows rows from every source.
InitDaily ==
    /\ r3 = <<>>
    /\ roster_file = BaseRoster
    /\ corrections_file \in {f \in CorrectionFiles : Len(f) = 1}
    /\ demo = << PlainRow(1, 1, Id_A1B2C4) >>
    /\ r1 = << PlainRow(1, 1, Id_A1B2C4) >>
    /\ \E n \in 0..MaxDailyRows :
       \E rows \in [1..n -> DailyRows] :
           data = [i \in 1..n |->
                      RawRow(i, rows[i][1][1], rows[i][1][3], rows[i][1][2],
                             rows[i][2].inst, rows[i][2].apr, rows[i][2].nov,
                             rows[i][2].notdone)]

\* todays_date and redcap_timestamp of a daily row: 04:00 and 10:00 of a
\* day, 10:00 of the next, and timestamps a day and more than a day after
\* the date.
DateRecords == { <<28, 28>>, <<34, 34>>, <<34, 58>>, <<34, 70>>, <<58, 58>> }

\* Daily files of one or two long-form rows of two subjects, dated.
InitDates ==
    /\ r3 = <<>>
    /\ roster_file = BaseRoster
    /\ corrections_file \in {f \in CorrectionFiles : Len(f) = 1}
    /\ demo = << PlainRow(1, 1, Id_A1B2C4) >>
    /\ r1 = <<>>
    /\ \E n \in 1..2 :
       \E id \in [1..n -> {Id_A1B2C4, Raw_b7k9m}] :
       \E date \in [1..n -> DateRecords] :
           data = [i \in 1..n |->
                      [RawRow(i, i, id[i], date[i][1], "covid19", "NaN", "NaN", FALSE)
                          EXCEPT !.redcap_timestamp = date[i][2]]]

\* The countries typed into the demographics form and into round 3.
DemoCountryInputs ==
    { <<" ","u","s","a">>, <<"u","k"," ">>, Canada, Country_NARNIA, NaS }

Round3CountryInputs ==
    { <<" ","u","s","a">>, <<"y","e","s">>, Canada, Country_NARNIA, NaS }

\* One subject's demographics and round 3, of any country; the record is one
\* of those whose country is set by hand, or another.
InitCountries ==
    /\ roster_file = BaseRoster
    /\ corrections_file = << <<Id_A1B2C3, Id_A1B2C4>> >>
    /\ data = <<>>
    /\ r1 = <<>>
    /\ \E rec \in {1, ManualCountryRecords[1]} :
       \E c \in DemoCountryInputs :
       \E c3 \in Round3CountryInputs :
           /\ demo = << [PlainRow(1, rec, Id_A1B2C4) EXCEPT !.country = c] >>
           /\ r3 = << [PlainRow(1, rec, Id_A1B2C4) EXCEPT !.country_3mo = c3] >>

\* Drinks of a day and hours of sleep a night as typed: none, and values
\* at and next to the ceilings.
AlcoholInputs == {NaN, 0, 24, 25, 48, 49}

SleepHoursInputs == {NaN, 8, 24, 25}

\* One subject's daily row and round 1 row, of any drinks and hours.
InitImpossible ==
    /\ roster_file = BaseRoster
    /\ corrections_file = << <<Id_A1B2C3, Id_A1B2C4>> >>
    /\ demo = << PlainRow(1, 1, Id_A1B2C4) >>
    /\ r3 = <<>>
    /\ \E a \in AlcoholInputs : \E h \in SleepHoursInputs :
           /\ data = << [RawRow(1, 1, Id_A1B2C4, 34, "covid19", "NaN", "NaN", FALSE)
                            EXCEPT !.redcap_timestamp = 34, !.alcohol_bev = a] >>
           /\ r1 = << [PlainRow(1, 1, Id_A1B2C4) EXCEPT !.psqi_4 = h] >>

\* The items of a scale as answered, from 1: all of one answer. An answer
\* of 5 is past the scale of the PHQ9.
ItemInputs == {1, 4}

\* A round 1 row with every PSQI answer given, psqi_5b .. psqi_5j all v.
FullPSQIRow(v) ==
    [PlainRow(1, 1, Id_A1B2C4) EXCEPT
         !.psqi_1 = 1380, !.psqi_3 = 420, !.psqi_2 = 20, !.psqi_4 = 7,
         !.psqi_5a = 2, !.psqi_5b_5j = [k \in 1..9 |-> v],
         !.psqi_5j2 = <<"d","o","g">>,
         !.psqi_6 = 2, !.psqi_7 = 1, !.psqi_8 = 2, !.psqi_9 = 2]

\* The row r without the answer named by item.
WithoutItem(r, item) ==
    CASE item = "psqi_1" -> [r EXCEPT !.psqi_1 = NaN]
      [] item = "psqi_2" -> [r EXCEPT !.psqi_2 = NaN]
      [] item = "psqi_4" -> [r EXCEPT !.psqi_4 = NaN]
      [] item = "psqi_5a" -> [r EXCEPT !.psqi_5a = NaN]
      [] item = "psqi_5b" -> [r EXCEPT !.psqi_5b_5j[1] = NaN]
      [] item = "psqi_5j" -> [r EXCEPT !.psqi_5b_5j[9] = NaN]
      [] item = "psqi_5j2" -> [r EXCEPT !.psqi_5j2 = NaS]
      [] item = "psqi_6" -> [r EXCEPT !.psqi_6 = NaN]
      [] item = "psqi_8" -> [r EXCEPT !.psqi_8 = NaN]
      [] OTHER -> r

MissingItems ==
    {"none", "psqi_1", "psqi_2", "psqi_4", "psqi_5a", "psqi_5b", "psqi_5j",
     "psqi_5j2", "psqi_6", "psqi_8"}

\* A daily row with the eight answers of the PHQ9 all v, but for the k-th if
\* k is one of them.
PHQ9Row(v, k) ==
    [RawRow(1, 1, Id_A1B2C4, 34, "covid19", "NaN", "NaN", FALSE) EXCEPT
         !.redcap_timestamp = 34,
         !.depression = [j \in 1..8 |-> IF j = k THEN NaN ELSE v]]

\* One subject's daily row and round 1 row, with up to two answers missing.
InitScales ==
    /\ roster_file = BaseRoster
    /\ corrections_file = << <<Id_A1B2C3, Id_A1B2C4>> >>
    /\ demo = << PlainRow(1, 1, Id_A1B2C4) >>
    /\ r3 = <<>>
    /\ \/ /\ \E v \in ItemInputs \cup {5} : \E k \in {0, 1, 8} :
                 data = << PHQ9Row(v, k) >>
          /\ r1 = << FullPSQIRow(1) >>
       \/ /\ data = << PHQ9Row(1, 0) >>
          /\ \E v \in ItemInputs : \E a, b \in MissingItems :
                 r1 = << WithoutItem(WithoutItem(FullPSQIRow(v), a), b) >>

\* Minutes to fall asleep as reported, about the ends of the bands; a
\* negative number is no minutes to fall asleep, and a number all the same.
LatencyInputs == {NaN, -5, 0, 5, 15, 16, 30, 31, 45, 60, 61}

\* Hours of sleep as reported, about the ends of the bands of the duration
\* and of the efficiency of the 8 hours in bed of FullPSQIRow; 9 is more
\* than the time in bed.
PSQIHoursInputs == {4, 5, 6, 7, 8, 9}

\* A round 1 row with every PSQI answer given: every answer on a scale of 1
\* to 4 is v, the minutes to fall asleep are m, the hours of sleep h.
ScaledPSQIRow(i, id, v, m, h) ==
    [PlainRow(i, i, id) EXCEPT
         !.psqi_1 = 1380, !.psqi_3 = 420, !.psqi_2 = m, !.psqi_4 = h,
         !.psqi_5a = v, !.psqi_5b_5j = [k \in 1..9 |-> v],
         !.psqi_5j2 = <<"d","o","g">>,
         !.psqi_6 = v, !.psqi_7 = v, !.psqi_8 = v, !.psqi_9 = v]

\* A daily row with the ten answers of the positive scale of the PANAS all
\* a and the ten of the negative scale all b, but for the k-th of both if k
\* is one of them.
PANASRow(a, b, k) ==
    [RawRow(1, 1, Id_A1B2C4, 34, "covid19", "NaN", "NaN", FALSE) EXCEPT
         !.redcap_timestamp = 34,
         !.panas_pa = [j \in 1..10 |-> IF j = k THEN NaN ELSE a],
         !.panas_na = [j \in 1..10 |-> IF j = k THEN NaN ELSE b]]

\* The answers of one or two subjects to the PSQI and to the PANAS, at the
\* ends of their scales and of the bands.
InitPSQI ==
    /\ roster_file = BaseRoster
    /\ corrections_file = << <<Id_A1B2C3, Id_A1B2C4>> >>
    /\ demo = << PlainRow(1, 1, Id_A1B2C4), PlainRow(2, 2, Raw_b7k9m) >>
    /\ r3 = <<>>
    /\ \/ /\ data = << PHQ9Row(1, 0) >>
          /\ \E m1, m2 \in LatencyInputs :
                 /\ m1 <= m2
                 /\ r1 = << ScaledPSQIRow(1, Id_A1B2C4, 2, m1, 7),
                         ScaledPSQIRow(2, Raw_b7k9m, 2, m2, 7) >>
       \/ /\ data = << [PANASRow(5, 1, 0) EXCEPT !.depression = [j \in 1..8 |-> 4]] >>
          /\ \E v \in ItemInputs : \E m \in {0, 61} : \E h \in PSQIHoursInputs :
                 r1 = << ScaledPSQIRow(1, Id_A1B2C4, v, m, h) >>
       \/ /\ r1 = << FullPSQIRow(1) >>
          /\ \E a, b \in {1, 3, 5} : \E k \in {0, 1, 10} :
                 data = << PANASRow(a, b, k) >>

\* The times of the sleep diary, in minutes from midnight: to bed at 23:00,
\* and out of it at 07:00 or, no time in bed at all, at 23:00.
OutOfBedInputs == {420, 1380}

\* Asleep at 23:00 or 23:30
FallAsleepInputs == {1380, 1410}

\* Awake at 07:00 or, after being out of bed, at 08:30
WakeTimeInputs == {420, 510}

\* Minutes awake in the night: 600 is more than the night, 1500 more than
\* a day
AwakeningInputs == {NaN, 0, 30, 600, 1500}

\* Minutes to fall asleep of the diary: 1500 is more than a day
SleepLatencyInputs == {0, 20, 1500}

\* A daily row with the sleep diary filled in
SleepDiaryRow(outofbed, fallasleep, waketime, wakes, awakening, latency) ==
    [RawRow(1, 1, Id_A1B2C4, 34, "covid19", "NaN", "NaN", FALSE) EXCEPT
         !.redcap_timestamp = 34,
         !.sleepdiary_bedtime = 1380, !.sleepdiary_outofbed = outofbed,
         !.sleepdiary_fallasleep = fallasleep, !.sleepdiary_waketime = waketime,
         !.sleepdiary_wakes = wakes, !.night_awakening_time = awakening,
         !.sleepdiary_sleeplatency = latency]

\* One subject's sleep diary of one night
InitSleepDiary ==
    /\ roster_file = BaseRoster
    /\ corrections_file = << <<Id_A1B2C3, Id_A1B2C4>> >>
    /\ demo = << PlainRow(1, 1, Id_A1B2C4) >>
    /\ r1 = <<>>
    /\ r3 = <<>>
    /\ \E o \in OutOfBedInputs : \E f \in FallAsleepInputs :
       \E w \in WakeTimeInputs : \E a \in AwakeningInputs :
       \E l \in SleepLatencyInputs : \E wakes \in {0, 1} :
           /\ wakes = 0 => a = NaN
           /\ data = << SleepDiaryRow(o, f, w, wakes, a, l) >>

\* The clock times of the Munich ChronoType Questionnaire, in minutes from
\* midnight: asleep on work days from 23:00 to 05:00 or to 07:00; on free
\* days from 20:00, 23:00 or 01:30, to 06:00, 09:31 or 10:00
WorkdayEndInputs == {300, 420}

FreedayOnsetInputs == {1200, 1380, 90}

FreedayEndInputs == {NaN, 360, 571, 600}

\* A round 1 row with the clock times of the questionnaire
MTQRow(workend, freeonset, freeend) ==
    [PlainRow(1, 1, Id_A1B2C4) EXCEPT
         !.mtq_p3 = 1380, !.mtq_p4 = workend,
         !.mtq_p5 = freeonset, !.mtq_p6 = freeend]

\* One subject's answers to the Munich ChronoType Questionnaire
InitChronotype ==
    /\ roster_file = BaseRoster
    /\ corrections_file = << <<Id_A1B2C3, Id_A1B2C4>> >>
    /\ demo = << PlainRow(1, 1, Id_A1B2C4) >>
    /\ data = << PHQ9Row(1, 0) >>
    /\ r3 = <<>>
    /\ \E w \in WorkdayEndInputs : \E o \in FreedayOnsetInputs :
       \E e \in FreedayEndInputs :
           r1 = << MTQRow(w, o, e) >>

Init ==
    /\ SleepIdle
    /\ ClockIdle
    /\ ScoreIdle
    /\ RunStart
    /\ (InitIds \/ InitRounds \/ InitDemo \/ InitDaily \/ InitDates
          \/ InitCountries \/ InitImpossible \/ InitScales \/ InitPSQI
          \/ InitSleepDiary \/ InitChronotype)

Next ==
    \/ DropMissing
    \/ StripUpper
    \/ FixLSAS
    \/ ApplyExclusions
    \/ StripZWSP
    \/ ApplyCorrections
    \/ OutputProblemIds
    \/ DropInvalid
    \/ LoadSubNumKey
    \/ CheckIds
    \/ ReplaceData
    \/ ReplaceDemo
    \/ ReplaceR1
    \/ ReplaceR3
    \/ CreateUniqueId
    \/ SetIndex
    \/ SortTables
    \/ OutputRaw
    \/ DropDuplicates
    \/ FormatDaily
    \/ ReferenceDate
    \/ FormatDemo
    \/ FormatRound1
    \/ FormatRound3
    \/ CalculatedDaily
    \/ CalculatedRound1
    \/ TimeBinData
    \/ QualityControl
    \/ CleanedOutput

Spec == Init /\ [][Next]_vars

----------------------------------------------------------------------------
(* Claims about calc_sleep_time and calc_sleep_midpoint (SpecSleep) *)

\* A valid clock time in [0, 24h), in whole minutes.
ValidClock(t) == t \in 0..(Hour24 - 1)

ValidClockInputs == ValidClock(bed_time) /\ ValidClock(awake_time)

\* The 12-hour pattern, as the claims word it.
ClaimPattern12 ==
    /\ awake_time < bed_time
    /\ bed_time >= 60 /\ bed_time < 780
    /\ awake_time >= 60 /\ awake_time < 780

\* Both endpoints in [1:00, 13:00), as the claims word it.
ClaimBothInWindow ==
    /\ bed_time >= 60 /\ bed_time < 780
    /\ awake_time >= 60 /\ awake_time < 780

\* awake minus bed, plus 24h if negative.
ClaimNaive == (awake_time - bed_time + 1440) % 1440

\* The duration before the ambiguity floor is applied.
ClaimBeforeFloor ==
    IF correct_12 /\ ClaimPattern12 THEN ClaimNaive - 720 ELSE ClaimNaive

\* C1: for valid clock times in [0, 24h) and every correct_12 and min_12,
\* calc_sleep_time raises neither its range error nor its impossible-value
\* assertion, and the duration it returns is missing or within [0, 24] hours.
C1_DurationInRange ==
    (ValidClockInputs /\ spc # "input")
        => /\ spc \notin {"ValueError", "AssertionError_st"}
           /\ (st = NaN \/ (st >= 0 /\ st <= 1440))

\* C1 witness: the 12-hour correction was applied and left a duration
\* strictly between 0 and 12 hours.
C1_Witness ==
    /\ ValidClockInputs /\ spc = "time"
    /\ corr12 = 1 /\ st > 0 /\ st < 720

\* C2: with correct_12, the flag is 1 and 12 hours are taken off the naive
\* duration exactly when awake < bed and both lie in [1:00, 13:00); otherwise
\* the flag is 0 and the duration (unless the floor made it missing) is the
\* naive one.
C2_Correction12 ==
    (ValidClockInputs /\ spc = "time" /\ correct_12)
        => /\ corr12 = (IF ClaimPattern12 THEN 1 ELSE 0)
           /\ (st # NaN => st = (IF ClaimPattern12 THEN ClaimNaive - 720
                                 ELSE ClaimNaive))
           /\ (min_12 = 0 => st # NaN)

\* C2 witness: awake < bed with bed outside the window (at 13:00 exactly):
\* no correction, the naive duration stands.
C2_Witness ==
    /\ spc = "time" /\ correct_12
    /\ bed_time = 780 /\ awake_time = 720
    /\ corr12 = 0 /\ st = 1380

\* C3: with a floor min_12 > 0 the duration is missing exactly when the
\* duration before the floor is below it and both endpoints lie in
\* [1:00, 13:00), whether or not awake < bed.
C3_AmbiguityFloor ==
    (ValidClockInputs /\ spc = "time" /\ min_12 > 0)
        => (st = NaN <=> (ClaimBeforeFloor < 60 * min_12 /\ ClaimBothInWindow))

\* C3 witness: a short interval with awake after bed, both in the window, is
\* made missing although the 12-hour pattern does not hold.
C3_Witness ==
    /\ ValidClockInputs /\ spc = "time" /\ min_12 = 2
    /\ awake_time > bed_time /\ ~ClaimPattern12
    /\ st = NaN

\* C4: for valid whole-minute clock times, the midpoint calc_sleep_midpoint
\* returns is missing or in [0, 24h): never negative, never 24:00 or more.
C4_MidpointBelow24 ==
    (ValidClockInputs /\ spc = "midpoint")
        => (sleep_midpoint = NaN
            \/ (sleep_midpoint >= 0 /\ sleep_midpoint < 1440))

----------------------------------------------------------------------------
(* Claims C16 .. C19: calc_sleep_time and calc_sleep_midpoint at the times *)
(* of the examples (SpecSleep)                                             *)

\* calc_sleep_time has returned for one valid clock time given twice
ClaimSameTimeTwice ==
    /\ spc = "time"
    /\ ValidClock(bed_time) /\ awake_time = bed_time

\* C16 as stated: for every valid clock time a and every setting of
\* correct_12 and min_12, calc_sleep_time(a, a, ...) returns a duration of
\* exactly 0, not missing and not 24.
C16_SameTimeIsZero == ClaimSameTimeTwice => st = 0

\* C16 amended: for every valid clock time a and every setting of correct_12,
\* calc_sleep_time(a, a, ...) returns a duration of exactly 0, never 24,
\* unless min_12 is more than 0 and a lies in [1:00, 13:00): the duration is
\* then missing.
C16_SameTimeIsZeroOrFloored ==
    ClaimSameTimeTwice =>
        st = IF min_12 > 0 /\ bed_time >= 60 /\ bed_time < 780 THEN NaN ELSE 0

\* C16 witness: 07:15 given twice with a floor of 2 hours, the duration
\* missing.
C16_Witness ==
    /\ ClaimSameTimeTwice
    /\ bed_time = 435 /\ min_12 = 2 /\ st = NaN

\* calc_sleep_time has returned for onset 01:00 and offset 00:50, the
\* correction enabled
ClaimOnset0100Offset0050 ==
    /\ spc = "time" /\ correct_12
    /\ bed_time = 60 /\ awake_time = 50

\* C17 as stated: with correct_12 enabled, onset 01:00 and offset 00:50 give
\* the corrected duration of 11 hours 50 minutes, with the flag set.
C17_Corrected1150 == ClaimOnset0100Offset0050 => (st = 710 /\ corr12 = 1)

\* C17 amended: with correct_12 enabled, onset 01:00 and offset 00:50 give
\* the duration of 23 hours 50 minutes with the flag not set: 00:50 is
\* before 01:00, outside the window of the correction.
C17_Uncorrected2350 == ClaimOnset0100Offset0050 => (st = 1430 /\ corr12 = 0)

\* C17 witness: the call has returned 23:50 hours, the flag 0.
C17_Witness == ClaimOnset0100Offset0050 /\ st = 1430 /\ corr12 = 0

\* calc_sleep_time has returned for onset 23:50 and offset 00:10, the floor
\* 2 hours
ClaimOnset2350Offset0010 ==
    /\ spc = "time" /\ min_12 = 2
    /\ bed_time = 1430 /\ awake_time = 10

\* C18 as stated: with min_12 = 2, onset 23:50 and offset 00:10 give a
\* missing duration rather than 20 minutes.
C18_Missing == ClaimOnset2350Offset0010 => st = NaN

\* C18 amended: with min_12 = 2, onset 23:50 and offset 00:10 give the
\* duration of 20 minutes, not a missing one: neither time lies in
\* [1:00, 13:00), where alone the floor applies.
C18_TwentyMinutes == ClaimOnset2350Offset0010 => st = 20

\* C18 witness: the call has returned 20 minutes.
C18_Witness == ClaimOnset2350Offset0010 /\ st = 20

\* onset + duration/2 in half minutes, reduced as C19 words it: modulo 24h
\* with the flag not set, 12h off at or past 13:00 with the flag set
ClaimMidpoint2 ==
    LET m2 == 2 * bed_time + st
    IN  IF corr12 = 1 THEN (IF m2 >= 2 * 780 THEN m2 - 2 * 720 ELSE m2)
        ELSE m2 % (2 * 1440)

\* C19: when the 12-hour correction flag is not set, calc_sleep_midpoint
\* returns (onset + duration/2) reduced modulo 24h and rounded to the minute
\* (onset 23:00 with a 4h interval gives 01:00); when the flag is set, the
\* midpoint is onset + duration/2, pulled back by 12h if it falls at or past
\* 13:00. A midpoint half way between two minutes may go to either.
C19_MidpointFormula ==
    (spc = "midpoint" /\ ValidClockInputs /\ st # NaN) =>
        \/ 2 * sleep_midpoint = ClaimMidpoint2
        \/ /\ ClaimMidpoint2 % 2 = 1
           /\ 2 * sleep_midpoint \in {ClaimMidpoint2 - 1, ClaimMidpoint2 + 1}

\* C29: calc_sleep_midpoint produces a result only when called with
\* correct_12=True; called with correct_12=False it fails with an error
\* instead of returning a midpoint, calc_sleep_time then returning the
\* duration alone and not the pair of the duration and the flag.
C29_MidpointNeedsCorrect12 ==
    /\ spc = "midpoint" => correct_12
    /\ ~correct_12 =>
           /\ sleep_midpoint = NaN
           /\ spc \in {"input", "time", "ValueError", "AssertionError_st",
                        "UnpackError"}

\* C29 witness: the call without correct_12 has failed on valid clock times,
\* at the unpacking, no midpoint returned.
C29_Witness ==
    /\ ~correct_12 /\ ValidClockInputs
    /\ spc = "UnpackError" /\ sleep_midpoint = NaN

----------------------------------------------------------------------------
(* Claims about the reconciliation of subject IDs (Spec) *)

\* The rows of the three tables.
AllRows ==
    {data[i] : i \in 1..Len(data)} \cup {demo[i] : i \in 1..Len(demo)}
        \cup {r1[i] : i \in 1..Len(r1)} \cup {r3[i] : i \in 1..Len(r3)}

\* A row that has its subject number.
Assigned(r) == r.sub_id # NaN

\* Normalization as the claims word it: whitespace trimmed, uppercased,
\* zero-width spaces stripped.
ClaimNormalize(raw) == SelectSeq(Upper(Strip(raw)), LAMBDA c : c # ZWSP)

\* The corrections map read off the file, applied once: an identifier
\* without an entry passes through.
ClaimCorrections(id) ==
    LET rows == {i \in 1..Len(corrections_file) :
                    Upper(Strip(corrections_file[i][1])) = id}
    IN  IF rows = {} THEN id
        ELSE Upper(Strip(corrections_file[
                 CHOOSE i \in rows : \A j \in rows : j <= i][2]))

ClaimIdentifier(raw) == ClaimCorrections(ClaimNormalize(raw))

\* The identifiers of the roster file.
ClaimRosterIds == {Upper(Strip(roster_file[i][1])) : i \in 1..Len(roster_file)}

\* roster[id]: the number the roster file gives the identifier.
ClaimRoster(id) ==
    LET i == CHOOSE i \in 1..Len(roster_file) : Upper(Strip(roster_file[i][1])) = id
    IN  roster_file[i][2]

\* C5: no row whose identifier, normalized and corrected, is in the
\* exclusion list or absent from the roster is ever assigned a subject number
\* or kept in a reconciled table.
C5_ExcludedNeverAssigned ==
    \A r \in AllRows :
        Assigned(r) =>
            /\ ClaimIdentifier(r.raw) \notin excl_subs
            /\ ClaimIdentifier(r.raw) \in ClaimRosterIds

\* C6: the assignment is injective and stable: two distinct roster
\* identifiers never have the same number, and rows whose corrected
\* identifiers are equal have the same number in every table.
C6_InjectiveStable ==
    /\ \A k, l \in DOMAIN sub_num_key :
           k # l => sub_num_key[k] # sub_num_key[l]
    /\ \A r, q \in AllRows :
           Assigned(r) /\ Assigned(q) =>
               ((ClaimIdentifier(r.raw) = ClaimIdentifier(q.raw))
                    <=> (r.sub_id = q.sub_id))

\* The same identifier numbered alike in the daily and in the round table,
\* beside a row of another identifier and another number.
C6_Witness ==
    /\ pc = "formatting"
    /\ \E i, k \in 1..Len(data) : \E j \in 1..Len(r1) :
           /\ data[i].raw = r1[j].raw /\ data[i].sub_id = r1[j].sub_id
           /\ Assigned(data[i]) /\ Assigned(data[k])
           /\ data[k].raw # data[i].raw /\ data[k].sub_id # data[i].sub_id

\* C7: every row that comes through has the number
\* roster[corrections(normalize(raw))], the corrections applied once; raw
\* ' a1b2c3 ' with the correction A1B2C3 to A1B2C4 and the roster row
\* A1B2C4, 17 has 17.
C7_Resolution ==
    \A r \in AllRows :
        Assigned(r) => r.sub_id = ClaimRoster(ClaimIdentifier(r.raw))

C7_Witness ==
    /\ pc = "formatting"
    /\ \E i \in 1..Len(corrections_file) :
           corrections_file[i] = <<Id_A1B2C3, Id_A1B2C4>>
    /\ \E r \in AllRows : r.raw = Raw_a1b2c3_spaced /\ r.sub_id = 17

\* The roster file holds an identifier twice, or a number twice.
ClaimRosterDefect ==
    \E i, j \in 1..Len(roster_file) :
        /\ i # j
        /\ \/ Upper(Strip(roster_file[i][1])) = Upper(Strip(roster_file[j][1]))
           \/ roster_file[i][2] = roster_file[j][2]

\* A row of a raw file left after the filtering has an identifier that is
\* no roster key.
ClaimOutsideKeyDomain ==
    /\ pc \notin {"dropna", "strip_upper", "fix_lsas", "exclusions",
                  "strip_zwsp", "corrections", "problem_ids", "drop_invalid"}
    /\ \E r \in AllRows :
           r.row > 0 /\ ~Assigned(r) /\ r.subjid \notin ClaimRosterIds

\* The sections from the first replacement on.
FromReplacement ==
    {"replace_demo", "replace_r1", "replace_r3", "unique_id", "index", "sort",
     "output_raw", "drop_duplicates", "formatting", "reference_date",
     "format_demo", "format_r1", "format_r3", "calculated", "calculated_r1",
     "quality_control", "cleaned_output", "done", "binned"}

\* C8: with an identifier or a number twice in the roster, or a remaining
\* identifier outside the roster's keys, the run halts before any identifier
\* of any table is replaced by a number.
C8_HaltBeforeReplace ==
    ClaimRosterDefect \/ ClaimOutsideKeyDomain =>
        /\ \A r \in AllRows : r.row > 0 => ~Assigned(r)
        /\ pc \notin FromReplacement
        /\ pc \in {"check_ids", "replace_data"} => failed # ""

\* The run halted on a roster that holds an identifier twice, rows in hand.
C8_Witness ==
    /\ pc = "halted"
    /\ failed = "assert not sub_num_key.duplicated('sub_id')"
    /\ ClaimRosterDefect
    /\ AllRows # {}
    /\ \A r \in AllRows : ~Assigned(r)

\* The step that drops the duplicates of the round table.
DropStep == pc = "drop_duplicates" /\ pc' = "formatting"

\* The rows of the round table that carry the subject number of row k.
SameSubject(k) == {q \in {r1[i] : i \in 1..Len(r1)} : q.sub_id = k.sub_id}

\* Exactly one row of each subject number is left, and it is one of the rows
\* there were.
OnePerSubject ==
    /\ \A i, j \in 1..Len(r1') : i # j => r1'[i].sub_id # r1'[j].sub_id
    /\ \A i \in 1..Len(r1') : r1'[i] \in {r1[j] : j \in 1..Len(r1)}
    /\ \A j \in 1..Len(r1) : \E i \in 1..Len(r1') : r1'[i].sub_id = r1[j].sub_id

\* C9 as stated: of several rows of one subject number the row kept is the
\* first in the row order of the raw table, one row per number left.
C9_FirstInRawOrder ==
    [][DropStep =>
          /\ OnePerSubject
          /\ \A i \in 1..Len(r1') : \A q \in SameSubject(r1'[i]) :
                 r1'[i].row <= q.row]_vars

\* C9, amended: of several rows of one subject number the row kept is the
\* one of the smallest record_id, wherever it stood in the raw table; the
\* others are dropped and one row per number is left.
C9_SmallestRecordId ==
    [][DropStep =>
          /\ OnePerSubject
          /\ \A i \in 1..Len(r1') : \A q \in SameSubject(r1'[i]) :
                 r1'[i].record_id <= q.record_id]_vars

\* Three raw rows of two subjects came down to two: the first raw row, of
\* record_id 3, was dropped for a later row of a smaller record_id.
C9_Witness ==
    /\ pc = "formatting"
    /\ Len(demo) = 2 /\ Len(data) = 1
    /\ Len(r1) = 2
    /\ \E i \in 1..2 : r1[i].row = 2 /\ r1[i].record_id = 1
    /\ \E i \in 1..2 : r1[i].row = 3 /\ r1[i].record_id = 2

\* The daily rows that have their unique_id.
KeyedRows == {r \in {data[i] : i \in 1..Len(data)} : r.unique_id # <<>>}

\* The source of a daily row.
ClaimVariant(r) ==
    IF r.april_18_complete # "NaN" THEN "april_18"
    ELSE IF r.nov15_complete # "NaN" THEN "nov15"
    ELSE r.redcap_repeat_instrument

\* The digits of unique_id: what stands before the first letter.
RECURSIVE Digits(_)
Digits(s) ==
    IF s = <<>> \/ Head(s) \notin {"0","1","2","3","4","5","6","7","8","9"}
    THEN <<>> ELSE <<Head(s)>> \o Digits(Tail(s))

\* The letters of unique_id: what stands after the digits.
Letters(s) == SubSeq(s, Len(Digits(s)) + 1, Len(s))

\* Keys differ between sources, are unique once indexed, and a duplicate
\* halts the run.
KeysTellApart ==
    /\ \A r \in KeyedRows : Digits(r.unique_id) = IntToStr(r.record_id)
    /\ \A r, q \in KeyedRows :
           r.record_id = q.record_id /\ ClaimVariant(r) # ClaimVariant(q)
               => r.unique_id # q.unique_id
    /\ pc \in {"sort", "output_raw", "drop_duplicates", "formatting"} =>
           \A i, j \in 1..Len(data) : i # j => data[i].unique_id # data[j].unique_id

\* C10 as stated: the key of a daily row is its record_id and one letter
\* for the source of the row; keys differ between sources, are unique
\* over the table, and a duplicate halts the run.
C10_SingleLetterKey ==
    /\ KeysTellApart
    /\ \A r \in KeyedRows : Len(Letters(r.unique_id)) = 1

\* C10, amended: the key of a daily row is its record_id and one or two
\* letters for the source of the row (L, S, LA, LB); keys differ between
\* sources, are unique over the table, and a duplicate halts the run.
C10_CompositeKey ==
    /\ KeysTellApart
    /\ \A r \in KeyedRows :
           Letters(r.unique_id) =
               CASE ClaimVariant(r) = "covid19" -> <<"L">>
                 [] ClaimVariant(r) = "covid19_short_survey" -> <<"S">>
                 [] ClaimVariant(r) = "april_18" -> <<"L","A">>
                 [] ClaimVariant(r) = "nov15" -> <<"L","B">>

\* A long-form row and a row of the April 18 wave with one record_id, keyed
\* apart and indexed.
C10_Witness ==
    /\ pc = "sort"
    /\ \E r, q \in KeyedRows :
           /\ r.record_id = q.record_id
           /\ ClaimVariant(r) = "covid19" /\ ClaimVariant(q) = "april_18"
           /\ r.unique_id # q.unique_id

----------------------------------------------------------------------------
(* Claim C11: daily rows of one subject and one calendar day               *)

\* the step of the REFERENCE DATE section
ReferenceStep == pc = "reference_date" /\ pc' = "format_demo"

\* rows i and j are two rows of table t with one sub_id and one calendar day
\* of todays_date
SameSubjectAndDay(t, i, j) ==
    /\ i # j
    /\ t[i].sub_id = t[j].sub_id
    /\ t[i].todays_date \div DayHours = t[j].todays_date \div DayHours

\* C11: the REFERENCE DATE section removes no daily row, and every row that
\* shares its canonical subject ID and the calendar day of todays_date with
\* another row, the first of them included, is flagged as a date problem and
\* left without a reference date.
C11_DuplicatesKeptAndFlagged ==
    [][ReferenceStep =>
          /\ Len(data') = Len(data)
          /\ \A i \in 1..Len(data) :
                /\ data'[i].row = data[i].row
                /\ (\E j \in 1..Len(data) : SameSubjectAndDay(data, i, j))
                       => /\ data'[i].ref_date_problem
                          /\ data'[i].ref_date = NaN]_vars

\* C11 witness: past the section, two rows of one subject at different times
\* of one day are both there, both flagged and without a reference date.
C11_Witness ==
    /\ pc = "format_demo"
    /\ Len(data) = 2
    /\ SameSubjectAndDay(data, 1, 2)
    /\ data[1].todays_date # data[2].todays_date
    /\ data[1].ref_date_problem /\ data[2].ref_date_problem
    /\ data[1].ref_date = NaN /\ data[2].ref_date = NaN

----------------------------------------------------------------------------
(* Claim C14: the halt of the country normalization                        *)

\* the value c is not missing and, trimmed, put to upper case and looked up
\* in dict, is a country outside the reference list
ClaimOutsideList(c, dict) ==
    /\ c # NaS
    /\ LET u == Upper(Strip(c))
           v == IF u \in DOMAIN dict THEN dict[u] ELSE u
       IN  v # NaS /\ v \notin countries

\* the rows of demo whose country the script does not set by hand
ClaimTypedCountries ==
    {i \in 1..Len(demo) :
        \A k \in 1..Len(ManualCountryRecords) :
            demo[i].record_id # ManualCountryRecords[k]}

\* C14: the country normalization halts the run if and only if some
\* non-missing value is, after trimming, upper-casing and the lookup, outside
\* the reference country list; a missing country never causes the halt, in
\* the demographics as in the round tables.
C14_HaltIffOutsideList ==
    [][/\ pc = "format_demo" =>
              (pc' = "halted" <=>
                   \E i \in ClaimTypedCountries :
                       ClaimOutsideList(demo[i].country, country_corrections))
       /\ pc = "format_r3" =>
              (pc' = "halted" <=>
                   \E i \in 1..Len(r3) :
                       ClaimOutsideList(r3[i].country_3mo, r3_country_corrections))
      ]_vars

\* The round tables' half of C14, which the script keeps.
C14_Round3 ==
    [][pc = "format_r3" =>
              (pc' = "halted" <=>
                   \E i \in 1..Len(r3) :
                       ClaimOutsideList(r3[i].country_3mo, r3_country_corrections))
      ]_vars

----------------------------------------------------------------------------
(* Claim C15: the ceilings of the drinks of a day and of the hours of sleep *)

\* the step of FORMATTING: DAILY SURVEYS that does not halt
FormatDailyStep == pc = "formatting" /\ pc' = "reference_date"

\* the step of FORMATTING: ROUND 1
FormatRound1Step == pc = "format_r1" /\ pc' = "format_r3"

\* the value v, made missing if it is more than ceiling
ClaimClamped(v, ceiling) == IF v # NaN /\ v > ceiling THEN NaN ELSE v

\* C15 as stated: clamping sets a count of alcoholic drinks over 24 and the
\* hours of sleep over 24 to missing, never to 24, and leaves every value of
\* 24 or less unchanged.
C15_BothCeilings24 ==
    [][/\ FormatDailyStep =>
              /\ Len(data') = Len(data)
              /\ \A i \in 1..Len(data) :
                    data'[i].alcohol_bev = ClaimClamped(data[i].alcohol_bev, 24)
       /\ FormatRound1Step =>
              /\ Len(r1') = Len(r1)
              /\ \A i \in 1..Len(r1) :
                    r1'[i].psqi_4 = ClaimClamped(r1[i].psqi_4, 24)
      ]_vars

\* C15 amended: clamping sets a count of alcoholic drinks over 48 and the
\* hours of sleep over 24 to missing, never to the ceiling, and leaves every
\* other value unchanged, the drinks from 25 to 48 among them.
C15_Ceilings48And24 ==
    [][/\ FormatDailyStep =>
              /\ Len(data') = Len(data)
              /\ \A i \in 1..Len(data) :
                    data'[i].alcohol_bev = ClaimClamped(data[i].alcohol_bev, 48)
       /\ FormatRound1Step =>
              /\ Len(r1') = Len(r1)
              /\ \A i \in 1..Len(r1) :
                    r1'[i].psqi_4 = ClaimClamped(r1[i].psqi_4, 24)
      ]_vars

\* C15 witness: both sections done, 25 drinks are still 25 drinks and 24
\* hours of sleep still 24 hours.
C15_Witness ==
    /\ pc = "format_r3"
    /\ \E i \in 1..Len(data) : data[i].alcohol_bev = 25
    /\ \E i \in 1..Len(r1) : r1[i].psqi_4 = 24

----------------------------------------------------------------------------
(* Claim C12: a missing item and the score that is a sum                   *)

\* the step of CALCULATED VARIABLES: DAILY SURVEYS & DEMOGRAPHICS
CalculatedDailyStep == pc = "calculated" /\ pc' = "calculated_r1"

\* the step of CALCULATED VARIABLES: ROUND 1 that does not halt
CalculatedRound1Step == pc = "calculated_r1" /\ pc' = "quality_control"

\* some item of the sequence items is missing
ClaimAnyMissing(items) == \E k \in 1..Len(items) : items[k] = NaN

\* the sum of the items of a sequence with none missing
RECURSIVE ClaimSum(_)
ClaimSum(items) ==
    IF items = <<>> THEN 0 ELSE Head(items) + ClaimSum(Tail(items))

\* the scores of the daily row after (q) are those of its answers before
\* (r): missing with any answer missing, the sum otherwise
ClaimDailyScores(r, q) ==
    q.PHQ9 = IF ClaimAnyMissing(r.depression) THEN NaN
             ELSE ClaimSum(r.depression)

\* the scores of the round 1 row after (q) other than PSQIDISTB are missing
\* with any of their items before (r) missing
ClaimRound1Scores(r, q) ==
    /\ ClaimAnyMissing(<<r.psqi_2, r.psqi_5a>>) => q.PSQILATEN = NaN
    /\ ClaimAnyMissing(<<r.psqi_8, r.psqi_9>>) => q.PSQIDAYDYS = NaN
    /\ ClaimAnyMissing(<<q.PSQIDURAT, q.PSQIDISTB, q.PSQILATEN, q.PSQIDAYDYS,
                         q.PSQIHSE, r.psqi_6, r.psqi_7>>) <=> q.PSQI_TOTAL = NaN

\* C12 as stated: whenever a single item of a summed scale score is missing,
\* the composite is missing, the components of the PSQI included; there is no
\* partial sum and no imputation of the missing item.
C12_MissingItemMissingScore ==
    [][/\ CalculatedDailyStep =>
              \A i \in 1..Len(data) : ClaimDailyScores(data[i], data'[i])
       /\ CalculatedRound1Step =>
              \A i \in 1..Len(r1) :
                  /\ ClaimRound1Scores(r1[i], r1'[i])
                  /\ ClaimAnyMissing(r1[i].psqi_5b_5j) => r1'[i].PSQIDISTB = NaN
      ]_vars

\* C12 amended: whenever a single item of a summed scale score is missing the
\* composite is missing, with no partial sum, but for item 5j of the PSQI:
\* it is counted as 0 in the sleep disturbance component when it or its
\* description 5j2 is missing, so that this component is missing exactly when
\* one of the items 5b to 5i is.
C12_MissingItemBut5j ==
    [][/\ CalculatedDailyStep =>
              \A i \in 1..Len(data) : ClaimDailyScores(data[i], data'[i])
       /\ CalculatedRound1Step =>
              \A i \in 1..Len(r1) :
                  /\ ClaimRound1Scores(r1[i], r1'[i])
                  /\ ClaimAnyMissing(SubSeq(r1[i].psqi_5b_5j, 1, 8))
                         <=> r1'[i].PSQIDISTB = NaN
                  /\ (r1[i].psqi_5j2 = NaS \/ r1[i].psqi_5b_5j[9] = NaN)
                         => r1'[i].psqi_5b_5j[9] = 0
      ]_vars

\* C12 witness: a round 1 row scored, the description 5j2 missing and the
\* sleep disturbance component there, an item of the daytime dysfunction
\* missing and with it the component and the total.
C12_Witness ==
    /\ pc = "quality_control"
    /\ \E i \in 1..Len(r1) :
           /\ r1[i].psqi_5j2 = NaS /\ r1[i].psqi_5b_5j[9] = 0
           /\ r1[i].PSQIDISTB \in 1..3
           /\ r1[i].psqi_8 = NaN
           /\ r1[i].PSQIDAYDYS = NaN /\ r1[i].PSQI_TOTAL = NaN

----------------------------------------------------------------------------
(* Claim C13: the export files of a run that is aborted                    *)

\* the files of the export folder, raw and cleaned, full and de-identified
ClaimExportFiles ==
    {"COVID19_combined_raw.csv", "COVID19_combined_raw_deid.csv",
     "COVID19_demographics_raw.csv", "COVID19_demographics_raw_deid.csv",
     "COVID19_Round1_raw.csv", "COVID19_Round1_raw_deid.csv",
     "COVID19_Round3_raw.csv", "COVID19_Round3_raw_deid.csv",
     "COVID19_combined_cleaned.csv", "COVID19_combined_cleaned_deid.csv",
     "COVID19_demographics_cleaned.csv", "COVID19_demographics_cleaned_deid.csv",
     "COVID19_Round1_cleaned.csv", "COVID19_Round1_cleaned_deid.csv",
     "COVID19_Round3_cleaned.csv", "COVID19_Round3_cleaned_deid.csv"}

\* C13: when a format error or an invariant violation aborts the run, at any
\* stage, the run has written no export file: every export is written only
\* after all the checks that can abort the run have passed.
C13_NoExportOnAbort ==
    pc = "halted" => written \cap ClaimExportFiles = {}

----------------------------------------------------------------------------
(* Claim C20: the identifiers after normalization                          *)

\* the identifier s is in upper case, holds no zero-width space and neither
\* begins nor ends with whitespace
ClaimNormalized(s) ==
    /\ \A k \in 1..Len(s) :
           /\ s[k] # ZWSP
           /\ \A l \in 1..26 : s[k] # LowerCase[l]
    /\ s # <<>> => /\ s[1] \notin {" ", "\t", "\n", "\r"}
                   /\ s[Len(s)] \notin {" ", "\t", "\n", "\r"}

\* C20: after identifier normalization (trimmed, put to upper case, the
\* zero-width spaces removed) every identifier of every table is uppercase,
\* contains no zero-width space and has no leading or trailing whitespace,
\* for every raw input string, those with whitespace next to a zero-width
\* space included.
C20_IdentifiersNormalized ==
    pc = "corrections" => \A r \in AllRows : ClaimNormalized(r.subjid)

----------------------------------------------------------------------------
(* Claim C30: the reference date of a daily row                            *)

\* row i of the daily table is a subject-day duplicate, or its todays_date
\* is more than one day from its completion timestamp
ClaimDateProblem(i) ==
    \/ \E j \in 1..Len(data) : SameSubjectAndDay(data, i, j)
    \/ data[i].todays_date - data[i].redcap_timestamp > 24
    \/ data[i].redcap_timestamp - data[i].todays_date > 24

\* midnight of the day before todays_date, of two days before if its time
\* of day is from 00:00 to 04:00
ClaimRefDate(r) ==
    LET day == r.todays_date \div 24
        hour == r.todays_date % 24
    IN  IF hour <= 4 THEN (day - 2) * 24 ELSE (day - 1) * 24

\* C30: a daily row is flagged as a date problem, and gets a missing
\* reference date, exactly when it is a subject-day duplicate or todays_date
\* differs from the completion timestamp by more than one day; for each row
\* not flagged the reference date is the calendar day of todays_date minus
\* one day, or minus two days when the time of day of todays_date is between
\* 00:00 and 04:00 inclusive.
C30_ReferenceDate ==
    [][ReferenceStep =>
          \A i \in 1..Len(data) :
              /\ data'[i].ref_date_problem <=> ClaimDateProblem(i)
              /\ data'[i].ref_date =
                     IF ClaimDateProblem(i) THEN NaN ELSE ClaimRefDate(data[i])
      ]_vars

\* C30 witness: past the section, a row of 04:00 with its reference date two
\* days before, and another whose timestamp is exactly a day after its date,
\* not flagged, with its reference date the day before.
C30_Witness ==
    /\ pc = "format_demo"
    /\ Len(data) = 2
    /\ \E i, j \in 1..2 :
           /\ data[i].todays_date = 28 /\ ~data[i].ref_date_problem
           /\ data[i].ref_date = -24
           /\ data[j].todays_date = 34 /\ data[j].redcap_timestamp = 58
           /\ ~data[j].ref_date_problem /\ data[j].ref_date = 0


(***************************************************************************)
(* Claims about the scores of the PSQI and of the daily scales (Spec)      *)
(***************************************************************************)

\* the band the claim C21 gives m minutes to fall asleep
ClaimLatencyBand(m) ==
    IF m = NaN THEN NaN
    ELSE IF m <= 15 THEN 0 ELSE IF m <= 30 THEN 1 ELSE IF m <= 60 THEN 2 ELSE 3

\* the minutes to fall asleep the claim C21 speaks of: missing, or none or more
ClaimReportedMinutes(m) == m = NaN \/ m >= 0

ClaimTimeInBed(r) == calc_sleep_time(r.psqi_1, r.psqi_3, TRUE, 3).st

\* the hours of sleep of the round 1 row r are more than its time in bed
ClaimEfficiencyOverOne(r) ==
    /\ r.psqi_4 # NaN
    /\ ClaimTimeInBed(r) # NaN
    /\ r.psqi_4 * 60 > ClaimTimeInBed(r)

\* C27: whenever the reported hours of sleep of a round 1 row are more than
\* its computed time in bed, the PSQI computation sets both the sleep
\* efficiency and the PSQI_TIB of the row to missing.
C27_EfficiencyAndTIBMissing ==
    [][CalculatedRound1Step =>
          \A i \in 1..Len(r1) :
              ClaimEfficiencyOverOne(r1[i]) =>
                  /\ r1'[i].PSQI_sleep_eff = NaQ
                  /\ r1'[i].PSQI_TIB = NaN
      ]_vars

\* v is missing or an answer from lo to hi
ClaimInRange(v, lo, hi) == v = NaN \/ (v >= lo /\ v <= hi)

\* every PSQI answer of the round 1 row r, as formatted, lies in its response
\* range: the scales from 0 to 3, the hours of sleep from 0 to 24, the
\* minutes to fall asleep from 0
ClaimPSQIItemsInRange(r) ==
    /\ r.psqi_2 = NaN \/ r.psqi_2 >= 0
    /\ ClaimInRange(r.psqi_4, 0, 24)
    /\ ClaimInRange(r.psqi_5a, 0, 3)
    /\ \A k \in 1..9 : ClaimInRange(r.psqi_5b_5j[k], 0, 3)
    /\ ClaimInRange(r.psqi_6, 0, 3) /\ ClaimInRange(r.psqi_7, 0, 3)
    /\ ClaimInRange(r.psqi_8, 0, 3) /\ ClaimInRange(r.psqi_9, 0, 3)

\* the seven components of the round 1 row r are each 0 to 3 or missing and
\* its total is missing or from 0 to 21
ClaimPSQIBounded(r) ==
    /\ ClaimInRange(r.PSQIDURAT, 0, 3) /\ ClaimInRange(r.PSQIDISTB, 0, 3)
    /\ ClaimInRange(r.PSQILATEN, 0, 3) /\ ClaimInRange(r.PSQIDAYDYS, 0, 3)
    /\ ClaimInRange(r.PSQIHSE, 0, 3) /\ ClaimInRange(r.PSQISLPQUAL, 0, 3)
    /\ ClaimInRange(r.PSQIMEDS, 0, 3)
    /\ ClaimInRange(r.PSQI_TOTAL, 0, 21)

\* the assertions of the PSQI computation on its components and its total
ClaimBoundsAssertions ==
    {"assert r1['PSQIDISTB'].isin([np.nan, 0, 1, 2, 3]).all()",
     "assert r1['PSQILATEN'].isin([np.nan, 0, 1, 2, 3]).all()",
     "assert all(r1['PSQI_TOTAL'].between(0, 21) | isna())"}

\* C22: whenever every contributing answer lies in its response range, the
\* seven PSQI components are each 0 to 3 or missing and the PSQI total is
\* missing or from 0 to 21, so that no bounds assertion fails; the PANAS sums
\* are missing or from 10 to 50 and the PHQ sum is missing or from 0 to 24.
C22_CompositesBounded ==
    [][/\ (pc = "calculated_r1" /\ \A i \in 1..Len(r1) : ClaimPSQIItemsInRange(r1[i]))
          => /\ failed' \notin ClaimBoundsAssertions
             /\ \A i \in 1..Len(r1') : ClaimPSQIBounded(r1'[i])
       /\ CalculatedDailyStep
          => \A i \in 1..Len(data) :
                 /\ (\A k \in 1..10 : ClaimInRange(data[i].panas_pa[k], 1, 5))
                    => ClaimInRange(data'[i].PANAS_PA, 10, 50)
                 /\ (\A k \in 1..10 : ClaimInRange(data[i].panas_na[k], 1, 5))
                    => ClaimInRange(data'[i].PANAS_NA, 10, 50)
                 /\ (\A k \in 1..8 : ClaimInRange(data[i].depression[k], 0, 3))
                    => ClaimInRange(data'[i].PHQ9, 0, 24)
      ]_vars

\* the composites at the ends of their ranges: a PSQI total of 21, PANAS sums
\* of 50 and of 10, a PHQ sum of 24
C22_Witness ==
    /\ pc = "quality_control"
    /\ \E i \in 1..Len(r1) : r1[i].PSQI_TOTAL = 21 /\ r1[i].PSQILATEN = 3
    /\ \E i \in 1..Len(data) :
           /\ data[i].PANAS_PA = 50 /\ data[i].PANAS_NA = 10
           /\ data[i].PHQ9 = 24

\* C28: after the daily sleep variables are computed and cleaned, a sleep
\* efficiency that is not missing is from 0 to 1, a total sleep time that is
\* not missing is not negative, a time in bed that is not missing is more
\* than 0, and a total sleep time is never more than the time in bed it
\* comes with.
C28_SleepVariablesBounded ==
    [][CalculatedDailyStep =>
          \A i \in 1..Len(data') :
              /\ data'[i].SE # NaQ =>
                     /\ data'[i].SE[1] >= 0
                     /\ data'[i].SE[2] > 0
                     /\ data'[i].SE[1] <= data'[i].SE[2]
              /\ data'[i].TST # NaN => data'[i].TST >= 0
              /\ data'[i].TIB # NaN => data'[i].TIB > 0
              /\ (data'[i].TST # NaN /\ data'[i].TIB # NaN)
                     => data'[i].TST <= data'[i].TIB
      ]_vars

\* a night asleep from 23:00 to 08:30 and in bed from 23:00 to 07:00 has
\* lost its sleep variables
C28_Witness ==
    /\ pc = "calculated_r1"
    /\ \E i \in 1..Len(data) :
           /\ data[i].sleepdiary_fallasleep = 1380
           /\ data[i].sleepdiary_waketime = 510
           /\ data[i].sleepdiary_outofbed = 420
           /\ data[i].night_awakening_time = 0
           /\ data[i].sleepdiary_sleeplatency = 0
           /\ data[i].SE = NaQ /\ data[i].TST = NaN /\ data[i].TIB = NaN

\* C23: every derived clock time computed by a subtraction, the chronotype
\* in particular, is wrapped around 24 hours when the subtraction gives a
\* negative time, so that a chronotype that is not missing is from 0:00 up
\* to, and not including, 24:00.
C23_ChronotypeWrapped ==
    [][CalculatedRound1Step =>
          \A i \in 1..Len(r1') :
              \/ r1'[i].mtq_precovid_chronotype = NaN
              \/ /\ r1'[i].mtq_precovid_chronotype >= 0
                 /\ r1'[i].mtq_precovid_chronotype < Hour24
      ]_vars

----------------------------------------------------------------------------
(* Claims about the clock times of the csv files (SpecClock) *)

ClaimDigit(k) == <<"0", "1", "2", "3", "4", "5", "6", "7", "8", "9">>[k + 1]

\* HH:MM, two digits each, of hh hours and mm minutes
ClaimHHMM(hh, mm) ==
    <<ClaimDigit(hh \div 10), ClaimDigit(hh % 10), ":",
      ClaimDigit(mm \div 10), ClaimDigit(mm % 10)>>

----------------------------------------------------------------------------
(* Claims about the reverse-scored items (SpecScore) *)

\* The sum of the forward answers and of K minus each reverse-scored answer
RECURSIVE ClaimReversedSum(_, _, _, _)
ClaimReversedSum(a, reverse, K, n) ==
    IF n = 0 THEN 0
    ELSE ClaimReversedSum(a, reverse, K, n - 1)
             + (IF n \in reverse THEN K - a[n] ELSE a[n])

\* v |-> K - v maps lo..hi onto itself, in the reverse order
ClaimReversesRange(K, lo, hi) ==
    /\ \A v \in lo..hi : K - v \in lo..hi
    /\ \A v \in lo..hi : \E w \in lo..hi : K - w = v
    /\ \A v, w \in lo..hi : v < w => K - v > K - w

ClaimCompositeWith(K) ==
    (qpc = "scored" /\ \A k \in 1..Len(answers) : answers[k] # NaN)
        => /\ score = ClaimReversedSum(answers, ReverseItems(scale), K,
                                       Len(answers))
           /\ ClaimReversesRange(K, ScaleFloor(scale), ScaleCeiling(scale))

\* C25, as stated: a reverse-scored item adds K minus its value to the
\* composite, K being the ceiling of the item's answers plus 1; the
\* composite is the sum of the forward items and of K minus each
\* reverse-scored item, and reverse scoring maps the range of the answers
\* onto itself in the reverse order.
C25_CeilingPlusOne == ClaimCompositeWith(ScaleCeiling(scale) + 1)

\* C25, amended: a reverse-scored item adds K minus its value to the
\* composite, K being the floor of the item's answers plus their ceiling (6
\* for the answers 1..5 of the Big 5, 4 for the answers 0..4 of the TEQ and
\* of the PSS); the composite is the sum of the forward items and of K
\* minus each reverse-scored item, and reverse scoring maps the range of
\* the answers onto itself in the reverse order.
C25_FloorPlusCeiling ==
    ClaimCompositeWith(ScaleFloor(scale) + ScaleCeiling(scale))

\* the PSS of 4 for each forward item and 0 for each reverse-scored item
\* is 6 * 4 + 4 * (4 - 0)
C25_Witness ==
    /\ qpc = "scored"
    /\ scale = "PSS_TOTAL"
    /\ answers = [k \in 1..10 |-> IF k <= 6 THEN 4 ELSE 0]
    /\ score = 40

----------------------------------------------------------------------------
(* Claims about time_bin_data (Spec) *)

TimeBinDataStep == pc = "done" /\ pc' # "done"

\* The rows of the daily table with a reference date in the bin b
ClaimRowsInBin(b) ==
    {i \in 1..Len(data) :
        /\ data[i].ref_date # NaN
        /\ TimeBins[b][1] <= data[i].ref_date
        /\ data[i].ref_date <= TimeBins[b][2]}

\* full_N + short_N, summed over the rows of binned_data of the bin b
RECURSIVE ClaimBinTotal(_, _, _)
ClaimBinTotal(rows, b, n) ==
    IF n = 0 THEN 0
    ELSE ClaimBinTotal(rows, b, n - 1)
             + (IF rows[n].time_bin = b
                THEN rows[n].full_N + rows[n].short_N ELSE 0)

\* C26: time_bin_data takes every key of the daily table for exactly one
\* of the short form (an S in it) and the full form (an L in it), whichever
\* of the suffixes L, S, LA, LB the key was given; for each time bin the
\* full_N and short_N of the subjects add up to the number of daily rows
\* with a reference date in the bin; none of its assertions fails.
C26_TimeBinCounts ==
    [][TimeBinDataStep =>
          /\ \A i \in 1..Len(data) : short_idx(data[i]) # full_idx(data[i])
          /\ pc' = "binned" /\ failed' = ""
          /\ \A b \in 1..Len(TimeBins) :
                 ClaimBinTotal(binned_data', b, Len(binned_data'))
                     = Cardinality(ClaimRowsInBin(b))
      ]_vars

\* a short survey and an April 18 or November 15 survey with reference
\* dates in one bin have been counted
C26_Witness ==
    /\ pc = "binned"
    /\ \E i, j \in 1..Len(data) : \E b \in 1..Len(TimeBins) :
           /\ {i, j} \subseteq ClaimRowsInBin(b)
           /\ data[i].unique_id[Len(data[i].unique_id)] = "S"
           /\ data[j].unique_id[Len(data[j].unique_id)] \in {"A", "B"}
           /\ ClaimBinTotal(binned_data, b, Len(binned_data)) >= 2

====
